---------------------------- MODULE Spec2Model ----------------------------
(***************************************************************************)
(* zenity-rs.  Text rendering (src/render/text.rs): the process-wide font  *)
(* list and fallback cache, shared by threads, and the layout, measure and *)
(* finish operations of a TextRenderer; the command line program; the     *)
(* ring buffer cache.                                                      *)
(*                                                                         *)
(* Spec        threads calling Font::load, Font::load_with_size and        *)
(*             find_fallback_for_char against the shared statics;          *)
(*             SpecFair adds fair scheduling of the threads.               *)
(* SpecLayout  one thread rendering texts: TextRenderer::layout,           *)
(*             resolve_glyphs, measure and finish, with the fallback       *)
(*             cache kept from one text to the next.                       *)
(*                                                                         *)
(* SpecFonts   font_priority applied to file names, and one directory     *)
(*             scan: collect_fonts_recursive, discover_system_fonts,       *)
(*             load_text_font and load_emoji_font, step by step.           *)
(*                                                                         *)
(* SpecDialog  the program from main to its exit code: the arguments,     *)
(*             MessageBuilder::show's event loop, DialogResult::exit_code. *)
(* SpecRing    one RingBufferCache (src/render/cache.rs) under its public *)
(*             operations.                                                 *)
(* SpecCanvas  one pixel of the canvas of TextRenderer::finish under the   *)
(*             draws of the glyphs that cover it.                          *)
(* SpecShow    one call of MessageBuilder::show from the start of its      *)
(*             event loop, with the window's events and the passing of     *)
(*             time; SpecShowFair adds that the loop and the time go on.   *)
(* SpecButton  one Button (src/ui/widgets/button.rs) under process_event   *)
(*             and was_clicked.                                            *)
(* SpecMonth   the grid of one month of the calendar                       *)
(*             (src/ui/calendar.rs): first_day_of_month, days_in_month.    *)
(* SpecCalendar  one call of CalendarBuilder::show from the start of its   *)
(*             event loop.                                                 *)
(*                                                                         *)
(* Lengths (f32 in the source) are integers counting 1/Sub of a pixel;     *)
(* f32 rounding error is not modelled.                                     *)
(***************************************************************************)
EXTENDS Integers, Sequences, FiniteSets, TLC

(***************************************************************************)
(* Bounds of the model.                                                    *)
(***************************************************************************)
\* Largest number of font files the directory scan finds.
NumFonts == 2
\* Number of threads that use the statics.
NumThreads == 2

\* Longest text laid out, in characters.
MaxTextLen == 4
\* Units of length per pixel.
Sub == 4

\* Longest file name scored, in words.
MaxNameLen == 3
\* Largest number of font files one directory walk comes across.
MaxFound == 3

\* Largest number of command line arguments.
MaxArgs == 3
\* Largest capacity of a RingBufferCache, and largest key.
MaxCapacity == 2
MaxKey == 2
\* Largest hit or miss count, and most insertions of a new key.
MaxStat == 1
MaxInserts == 4
\* Longest timeout of a dialog, in seconds, and most window events sent to it.
MaxSecs == 1
MaxEvents == 3
\* Most glyphs drawn over one pixel.
MaxDraws == 3

Threads == 1..NumThreads

\* Characters the primary and the emoji font lack, asked of the fallback resolver.
FbChars == {"x", "y"}

\* Option::None of a font handle and of a returned font; Some(font) is the
\* index of the candidate the font data was read from.
None == 0

VARIABLES
    disk,            \* the font files the scan finds, in sorted candidate order
    SYSTEM_FONTS,    \* OnceLock<Vec<SystemFontEntry>>
    FALLBACK_CACHE,  \* OnceLock<Mutex<Vec<CachedFont>>>: the cell and the vector
    mutex,           \* the Mutex of FALLBACK_CACHE: 0 free, else the owning thread
    pc,              \* where each thread is
    op,              \* the function each thread is in
    ch,              \* find_fallback_for_char's argument c
    idx,             \* the loop index of the fast or slow path
    loaded,          \* the slow path's `loaded`: TRUE for Some(font)
    result,          \* what find_fallback_for_char returned to the thread
    servable,        \* history: when the thread's call began, a font returned
                     \*          before it contained the call's character
    scans,           \* history: runs of discover_system_fonts
    cacheInits,      \* history: runs of the closure that builds the cache
    returned         \* history: the fonts find_fallback_for_char has returned

VARIABLES
    lpc,             \* where the rendering thread is: idle, in layout, or done
    text,            \* TextRenderer::text, as far as layout has read it
    max_width,       \* TextRenderer::max_width
    emoji,           \* Font::emoji is Some
    glyphs,          \* layout's `glyphs`
    x,               \* layout's x
    y,               \* layout's y
    last_softbreak,  \* layout's last_softbreak: 0 for None, i + 1 for Some(i)
    last_primary_glyph,  \* layout's last_primary_glyph
    resolved,        \* history: the font each character read was resolved to
    out              \* what measure or finish returned

VARIABLES
    fpc,             \* where the scan is: naming, scored, collect, sorted, loaded
    name,            \* the file name being scored, a sequence of words
    priority,        \* what font_priority returned for it
    collected,       \* the canonical paths of `entries` as collected, in order
    parses,          \* which font files read and parse
    entries,         \* discover_system_fonts's `entries`
    text_font,       \* what load_text_font returned
    emoji_font       \* what load_emoji_font returned

VARIABLES
    dpc,             \* where the program is: args, showing, exited
    nargs,           \* arguments read by parser.next()
    dialog_type,     \* run's dialog_type
    title,           \* run's title
    dtext,           \* run's text
    buttons,         \* show's buttons: the labels, reversed
    cause,           \* history: what ended the run
    exit_status      \* the process's exit code

VARIABLES
    storage,         \* RingBufferCache::storage
    capacity,        \* RingBufferCache::capacity
    keys,            \* RingBufferCache::keys
    hits,            \* RingBufferCache::hits
    misses,          \* RingBufferCache::misses
    born,            \* history: when each key present was inserted
    clock,           \* history: insertions of a new key so far
    gets,            \* history: get calls since new, clear or reset_stats
    last_call        \* history: the last operation called, and what it returned

VARIABLES
    wpc,             \* where show is: check, get, sleep, handle, batch, returned
    timeout,         \* MessageBuilder::timeout, an Option as a set
    deadline,        \* show's deadline, an Option as a set
    now,             \* Instant::now(), in seconds
    events,          \* the window's pending events
    event,           \* show's event
    widgets,         \* show's buttons
    shown,           \* what show returned
    posted           \* history: events sent to the window so far

VARIABLES
    pix,             \* finish's pixmap: the pixel at one place
    color,           \* TextRenderer::color
    last_draw,       \* history: the last draw, and the pixel before it
    ndraws,          \* history: draws so far
    panicked         \* an unwrap of finish met None

VARIABLES
    btn,             \* a Button: label, hovered, pressed, clicked
    bcall,           \* history: the last call on the button
    btn_event,       \* history: the event of the last process_event
    was,             \* history: what the last was_clicked returned, as a set
    registered       \* history: clicks registered since the last was_clicked

VARIABLES
    cpc,             \* where the calendar's show is: wait, batch, returned, panicked
    year,            \* show's year
    month,           \* show's month
    selected_day,    \* show's selected_day
    hovered_day,     \* show's hovered_day, an Option as a set
    mouse,           \* show's (mouse_x, mouse_y), as the place it is in
    cal_buttons,     \* show's ok_button and cancel_button
    picked,          \* what the calendar's show returned
    grid             \* draw's first_day and days_in_month

staticVars == <<disk, SYSTEM_FONTS, FALLBACK_CACHE, mutex>>
threadVars == <<pc, op, ch, idx, loaded, result, servable>>
histVars == <<scans, cacheInits, returned>>
layoutVars == <<lpc, text, max_width, emoji, glyphs, x, y, last_softbreak,
                last_primary_glyph, resolved, out>>
fontVars == <<fpc, name, priority, collected, parses, entries, text_font,
              emoji_font>>
dialogVars == <<dpc, nargs, dialog_type, title, dtext, buttons, cause,
                exit_status>>
ringVars == <<storage, capacity, keys, hits, misses, born, clock, gets,
              last_call>>
showVars == <<wpc, timeout, deadline, now, events, event, widgets, shown,
              posted>>
canvasVars == <<pix, color, last_draw, ndraws, panicked>>
buttonVars == <<btn, bcall, btn_event, was, registered>>
calendarVars == <<cpc, year, month, selected_day, hovered_day, mouse,
                  cal_buttons, picked, grid>>
widgetVars == <<buttonVars, calendarVars>>
vars == <<staticVars, threadVars, histVars, layoutVars, fontVars, dialogVars,
          ringVars, showVars, canvasVars, widgetVars>>

\* The variables the threads of Spec leave alone.
outsideSpec == <<layoutVars, fontVars, dialogVars, ringVars, showVars,
                 canvasVars, widgetVars>>
\* The variables the rendering thread of SpecLayout leaves alone.
outsideLayout == <<mutex, threadVars, histVars, fontVars, dialogVars, ringVars,
                   showVars, canvasVars, widgetVars>>

\* The variables SpecFonts, SpecDialog and SpecRing leave alone.
outsideFonts == <<staticVars, threadVars, histVars, layoutVars, dialogVars,
                  ringVars, showVars, canvasVars, widgetVars>>
outsideDialog == <<staticVars, threadVars, histVars, layoutVars, fontVars,
                   ringVars, showVars, canvasVars, widgetVars>>
outsideRing == <<staticVars, threadVars, histVars, layoutVars, fontVars,
                 dialogVars, showVars, canvasVars, widgetVars>>
\* The variables SpecShow leaves alone.
outsideShow == <<staticVars, threadVars, histVars, layoutVars, fontVars,
                 dialogVars, ringVars, canvasVars, widgetVars>>
\* The variables SpecCanvas leaves alone.
outsideCanvas == <<staticVars, threadVars, histVars, layoutVars, fontVars,
                   dialogVars, ringVars, showVars, widgetVars>>

\* The variables SpecButton, and SpecCalendar and SpecMonth, leave alone.
outsideButton == <<staticVars, threadVars, histVars, layoutVars, fontVars,
                   dialogVars, ringVars, showVars, canvasVars, calendarVars>>
outsideCalendar == <<staticVars, threadVars, histVars, layoutVars, fontVars,
                     dialogVars, ringVars, showVars, canvasVars, buttonVars>>

(***************************************************************************)
(* The font files.  A file either fails to read or parse, or parses to a   *)
(* font with a set of characters its character map covers.                 *)
(***************************************************************************)
FontFiles ==
    {[parses |-> FALSE, has |-> {}]}
        \cup {[parses |-> TRUE, has |-> s] : s \in SUBSET FbChars}

DiskStates == UNION {[1..n -> FontFiles] : n \in 0..NumFonts}

\* font.glyph_id(c).0 != 0 for the font parsed from candidate f
HasGlyph(f, c) == c \in disk[f].has

\* std::fs::read(path).ok().and_then(|data| FontArc::try_from_vec(data).ok())
\* is Some(font)
ReadAndParse(f) == disk[f].parses

\* What discover_system_fonts returns: the candidates, in sorted order.
discover_system_fonts == [f \in 1..Len(disk) |-> f]

(***************************************************************************)
(* OnceLock: get_or_init runs the initializer in the one caller that finds *)
(* the cell uninitialized; callers arriving meanwhile block until the      *)
(* value is set.                                                           *)
(***************************************************************************)
OnceEnterRacy(cell) == cell.state # "done"

OnceEnter(cell) == cell.state = "uninit"

OnceReady(cell) == cell.state = "done"

EmptyCell == [state |-> "uninit", value |-> <<>>]

\* CachedFont { font: None, load_failed: false }
CachedFontNew == [font |-> None, load_failed |-> FALSE]

cache == FALLBACK_CACHE.value

\* f32::MAX, the max_width of Font::render: above every length reached.
F32Max == 1000000

\* Option::None of last_primary_glyph.
NoGlyph == "none"

\* No measure or finish has returned.
NoOut == [op |-> "none", w |-> 0, h |-> 0, reduced |-> FALSE]

\* The rendering thread is not rendering.
LayoutIdle ==
    /\ lpc = "idle"
    /\ text = <<>>
    /\ max_width = F32Max
    /\ glyphs = <<>>
    /\ x = 0
    /\ y = 0
    /\ last_softbreak = None
    /\ last_primary_glyph = NoGlyph
    /\ resolved = <<>>
    /\ out = NoOut

\* No font_priority result yet.
NoPriority == -1

\* load_text_font and load_emoji_font have not returned yet.
NoFont == -1

\* No name is being scored and no directory is being scanned.
FontsIdle ==
    /\ fpc = "idle"
    /\ name = <<>>
    /\ priority = NoPriority
    /\ collected = <<>>
    /\ parses = <<>>
    /\ entries = <<>>
    /\ text_font = NoFont
    /\ emoji_font = NoFont

\* Option::None of dialog_type; no exit code yet.
NoDialogType == "none"

NoExit == -1

\* The program has not started.
DialogIdle ==
    /\ dpc = "idle"
    /\ nargs = 0
    /\ dialog_type = NoDialogType
    /\ title = ""
    /\ dtext = ""
    /\ buttons = <<>>
    /\ cause = [kind |-> "none", label |-> ""]
    /\ exit_status = NoExit

\* No RingBufferCache has been made.
RingIdle ==
    /\ storage = <<>>
    /\ capacity = 0
    /\ keys = <<>>
    /\ hits = 0
    /\ misses = 0
    /\ born = <<>>
    /\ clock = 0
    /\ gets = 0
    /\ last_call = [name |-> "none", key |-> 0, value |-> None, ret |-> None]

\* show has not been called.
ShowIdle ==
    /\ wpc = "idle"
    /\ timeout = {}
    /\ deadline = {}
    /\ now = 0
    /\ events = <<>>
    /\ event = [type |-> "none", pos |-> 0]
    /\ widgets = <<>>
    /\ shown = [tag |-> "none", n |-> 0]
    /\ posted = 0

\* finish draws nothing.
CanvasIdle ==
    /\ pix = [r |-> 0, g |-> 0, b |-> 0, a |-> 0]
    /\ color = [r |-> 0, g |-> 0, b |-> 0]
    /\ last_draw = [kind |-> "none", a |-> 0,
                    src |-> [r |-> 0, g |-> 0, b |-> 0, a |-> 0],
                    existing |-> [r |-> 0, g |-> 0, b |-> 0, a |-> 0]]
    /\ ndraws = 0
    /\ panicked = FALSE

\* No button is made.
ButtonIdle ==
    /\ btn = [label |-> "", hovered |-> FALSE, pressed |-> FALSE,
              clicked |-> FALSE]
    /\ bcall = "idle"
    /\ btn_event = [type |-> "none", pos |-> 0]
    /\ was = {}
    /\ registered = 0

\* No calendar is shown.
CalendarIdle ==
    /\ cpc = "idle"
    /\ year = 0
    /\ month = 0
    /\ selected_day = 0
    /\ hovered_day = {}
    /\ mouse = 0
    /\ cal_buttons = <<>>
    /\ picked = [tag |-> "none", year |-> 0, month |-> 0, day |-> 0]
    /\ grid = [first_day |-> -1, days |-> 0]

WidgetsIdle == ButtonIdle /\ CalendarIdle

\* The state of everything but the statics and their threads, at rest.
OthersIdle ==
    /\ LayoutIdle /\ FontsIdle /\ DialogIdle /\ RingIdle /\ ShowIdle
    /\ CanvasIdle /\ WidgetsIdle

Init ==
    /\ disk \in DiskStates
    /\ SYSTEM_FONTS = EmptyCell
    /\ FALLBACK_CACHE = EmptyCell
    /\ mutex = 0
    /\ pc = [t \in Threads |-> "idle"]
    /\ op = [t \in Threads |-> "none"]
    /\ ch = [t \in Threads |-> "none"]
    /\ idx = [t \in Threads |-> 0]
    /\ loaded = [t \in Threads |-> FALSE]
    /\ result = [t \in Threads |-> None]
    /\ servable = [t \in Threads |-> FALSE]
    /\ scans = 0
    /\ cacheInits = 0
    /\ returned = {}
    /\ emoji = FALSE
    /\ OthersIdle

(***************************************************************************)
(* Entering a function.  A thread is free to call when it is idle or has   *)
(* the value of its last find_fallback_for_char in hand.                   *)
(***************************************************************************)
AtRest(t) == pc[t] \in {"idle", "returned"}

\* Font::load and Font::load_with_size: both begin with load_text_font,
\* whose first statement is SYSTEM_FONTS.get_or_init(discover_system_fonts).
CallLoad(t) ==
    /\ AtRest(t)
    /\ UNCHANGED outsideSpec
    /\ op' = [op EXCEPT ![t] = "load_text_font"]
    /\ pc' = [pc EXCEPT ![t] = "get_fonts"]
    /\ ch' = [ch EXCEPT ![t] = "none"]
    /\ result' = [result EXCEPT ![t] = None]
    /\ UNCHANGED <<staticVars, idx, loaded, servable, histVars>>

\* find_fallback_for_char(c): begins with ensure_fallback_cache().
CallFind(t) ==
    /\ AtRest(t)
    /\ UNCHANGED outsideSpec
    /\ \E c \in FbChars :
          /\ ch' = [ch EXCEPT ![t] = c]
          /\ servable' = [servable EXCEPT
                             ![t] = \E f \in returned : HasGlyph(f, c)]
    /\ op' = [op EXCEPT ![t] = "find_fallback_for_char"]
    /\ pc' = [pc EXCEPT ![t] = "get_fonts"]
    /\ result' = [result EXCEPT ![t] = None]
    /\ UNCHANGED <<staticVars, idx, loaded, histVars>>

\* With SYSTEM_FONTS set, ensure_fallback_cache goes on to FALLBACK_CACHE;
\* load_text_font only reads the list from here on.
AfterFonts(t) ==
    IF op[t] = "find_fallback_for_char"
    THEN /\ pc' = [pc EXCEPT ![t] = "get_cache"]
         /\ UNCHANGED op
    ELSE /\ pc' = [pc EXCEPT ![t] = "idle"]
         /\ op' = [op EXCEPT ![t] = "none"]

(***************************************************************************)
(* SYSTEM_FONTS.get_or_init(discover_system_fonts)                         *)
(***************************************************************************)
GetFontsReady(t) ==
    /\ pc[t] = "get_fonts"
    /\ UNCHANGED outsideSpec
    /\ OnceReady(SYSTEM_FONTS)
    /\ AfterFonts(t)
    /\ UNCHANGED <<staticVars, ch, idx, loaded, result, servable, histVars>>

GetFontsEnter(t) ==
    /\ pc[t] = "get_fonts"
    /\ UNCHANGED outsideSpec
    /\ OnceEnter(SYSTEM_FONTS)
    /\ SYSTEM_FONTS' = [SYSTEM_FONTS EXCEPT !.state = "running"]
    /\ scans' = scans + 1
    /\ pc' = [pc EXCEPT ![t] = "scan"]
    /\ UNCHANGED <<disk, FALLBACK_CACHE, mutex, op, ch, idx, loaded, result,
                   servable, cacheInits, returned>>

ScanDone(t) ==
    /\ pc[t] = "scan"
    /\ UNCHANGED outsideSpec
    /\ SYSTEM_FONTS' = [state |-> "done", value |-> discover_system_fonts]
    /\ AfterFonts(t)
    /\ UNCHANGED <<disk, FALLBACK_CACHE, mutex, ch, idx, loaded, result,
                   servable, histVars>>

(***************************************************************************)
(* ensure_fallback_cache: FALLBACK_CACHE.get_or_init(|| Mutex::new(cache)) *)
(***************************************************************************)
GetCacheReady(t) ==
    /\ pc[t] = "get_cache"
    /\ UNCHANGED outsideSpec
    /\ OnceReady(FALLBACK_CACHE)
    /\ pc' = [pc EXCEPT ![t] = "lock"]
    /\ UNCHANGED <<staticVars, op, ch, idx, loaded, result, servable, histVars>>

GetCacheEnter(t) ==
    /\ pc[t] = "get_cache"
    /\ UNCHANGED outsideSpec
    /\ OnceEnter(FALLBACK_CACHE)
    /\ FALLBACK_CACHE' = [FALLBACK_CACHE EXCEPT !.state = "running"]
    /\ cacheInits' = cacheInits + 1
    /\ pc' = [pc EXCEPT ![t] = "new_cache"]
    /\ UNCHANGED <<disk, SYSTEM_FONTS, mutex, op, ch, idx, loaded, result,
                   servable, scans, returned>>

NewCacheDone(t) ==
    /\ pc[t] = "new_cache"
    /\ UNCHANGED outsideSpec
    /\ FALLBACK_CACHE' =
           [state |-> "done",
            value |-> [f \in 1..Len(SYSTEM_FONTS.value) |-> CachedFontNew]]
    /\ pc' = [pc EXCEPT ![t] = "lock"]
    /\ UNCHANGED <<disk, SYSTEM_FONTS, mutex, op, ch, idx, loaded, result,
                   servable, histVars>>

(***************************************************************************)
(* find_fallback_for_char after ensure_fallback_cache                      *)
(***************************************************************************)
\* cache_mutex.lock(): blocks while another thread holds the guard.
MutexFreeIgnored(m) == TRUE

MutexFree(m) == m = 0

Lock(t) ==
    /\ pc[t] = "lock"
    /\ UNCHANGED outsideSpec
    /\ MutexFree(mutex)
    /\ mutex' = t
    /\ pc' = [pc EXCEPT ![t] = "fast"]
    /\ idx' = [idx EXCEPT ![t] = 1]
    /\ UNCHANGED <<disk, SYSTEM_FONTS, FALLBACK_CACHE, op, ch, loaded, result,
                   servable, histVars>>

\* The fast path's test of one entry: it holds a font and the font has c.
FastHitNever(e, c) == FALSE

FastHit(e, c) == e.font # None /\ HasGlyph(e.font, c)

\* The first font, in candidate order, that `slots` holds and that contains c.
FirstRetained(slots, c) ==
    LET holding == {f \in 1..Len(slots) : FastHit(slots[f], c)}
    IN IF holding = {} THEN None
       ELSE slots[CHOOSE f \in holding : \A g \in holding : f <= g].font

\* The mutex after thread t's guard `cache` goes out of scope.
UnlockNever(m, t) == m

Unlock(m, t) == IF m = t THEN 0 ELSE m

\* `return r`: the guard is dropped, which unlocks the mutex.
Return(t, r) ==
    /\ result' = [result EXCEPT ![t] = r]
    /\ returned' = IF r = None THEN returned ELSE returned \cup {r}
    /\ mutex' = Unlock(mutex, t)
    /\ pc' = [pc EXCEPT ![t] = "returned"]
    /\ op' = [op EXCEPT ![t] = "none"]
    /\ idx' = [idx EXCEPT ![t] = 0]
    /\ loaded' = [loaded EXCEPT ![t] = FALSE]
    /\ servable' = [servable EXCEPT ![t] = FALSE]
    /\ UNCHANGED ch

\* One iteration of `for entry in cache.iter()`, or the loop's end.
FastStep(t) ==
    /\ pc[t] = "fast"
    /\ UNCHANGED outsideSpec
    /\ IF idx[t] > Len(cache)
       THEN /\ pc' = [pc EXCEPT ![t] = "slow"]
            /\ idx' = [idx EXCEPT ![t] = 1]
            /\ UNCHANGED <<mutex, op, ch, loaded, result, servable, returned>>
       ELSE IF FastHit(cache[idx[t]], ch[t])
            THEN Return(t, cache[idx[t]].font)
            ELSE /\ idx' = [idx EXCEPT ![t] = idx[t] + 1]
                 /\ UNCHANGED <<pc, mutex, op, ch, loaded, result, servable,
                                returned>>
    /\ UNCHANGED <<disk, SYSTEM_FONTS, FALLBACK_CACHE, scans, cacheInits>>

\* The slow path's `continue`: the slot holds a font or has failed before.
SlowSkipFailedRetried(e) == e.font # None

SlowSkip(e) == e.font # None \/ e.load_failed

\* The head of one iteration of `for i in 0..cache.len()`, or `None` after it.
SlowStep(t) ==
    /\ pc[t] = "slow"
    /\ UNCHANGED outsideSpec
    /\ IF idx[t] > Len(cache)
       THEN Return(t, None)
       ELSE IF SlowSkip(cache[idx[t]])
            THEN /\ idx' = [idx EXCEPT ![t] = idx[t] + 1]
                 /\ UNCHANGED <<pc, mutex, op, ch, loaded, result, servable,
                                returned>>
            ELSE /\ pc' = [pc EXCEPT ![t] = "read"]
                 /\ UNCHANGED <<idx, mutex, op, ch, loaded, result, servable,
                                returned>>
    /\ UNCHANGED <<disk, SYSTEM_FONTS, FALLBACK_CACHE, scans, cacheInits>>

\* let loaded = std::fs::read(&fonts[i].path).ok().and_then(..)
SlowRead(t) ==
    /\ pc[t] = "read"
    /\ UNCHANGED outsideSpec
    /\ loaded' = [loaded EXCEPT ![t] = ReadAndParse(SYSTEM_FONTS.value[idx[t]])]
    /\ pc' = [pc EXCEPT ![t] = "match"]
    /\ UNCHANGED <<staticVars, op, ch, idx, result, servable, histVars>>

\* The slot after `match loaded` when the font parsed: kept on a match only.
SlotAfterLoadKeepAlways(e, f, hit) == [e EXCEPT !.font = f]

SlotAfterLoadMissFails(e, f, hit) ==
    IF hit THEN [e EXCEPT !.font = f] ELSE [e EXCEPT !.load_failed = TRUE]

SlotAfterLoad(e, f, hit) == IF hit THEN [e EXCEPT !.font = f] ELSE e

\* match loaded { Some(font) => .., None => cache[i].load_failed = true }
SlowMatch(t) ==
    /\ pc[t] = "match"
    /\ UNCHANGED outsideSpec
    /\ LET i == idx[t]
           f == SYSTEM_FONTS.value[i]
           hit == HasGlyph(f, ch[t])
           e == IF loaded[t]
                THEN SlotAfterLoad(cache[i], f, hit)
                ELSE [cache[i] EXCEPT !.load_failed = TRUE]
       IN /\ FALLBACK_CACHE' = [FALLBACK_CACHE EXCEPT !.value[i] = e]
          /\ IF loaded[t] /\ hit
             THEN Return(t, f)
             ELSE /\ idx' = [idx EXCEPT ![t] = i + 1]
                  /\ pc' = [pc EXCEPT ![t] = "slow"]
                  /\ loaded' = [loaded EXCEPT ![t] = FALSE]
                  /\ UNCHANGED <<mutex, op, ch, result, servable, returned>>
    /\ UNCHANGED <<disk, SYSTEM_FONTS, scans, cacheInits>>

Next ==
    \E t \in Threads :
        \/ CallLoad(t)
        \/ CallFind(t)
        \/ GetFontsReady(t)
        \/ GetFontsEnter(t)
        \/ ScanDone(t)
        \/ GetCacheReady(t)
        \/ GetCacheEnter(t)
        \/ NewCacheDone(t)
        \/ Lock(t)
        \/ FastStep(t)
        \/ SlowStep(t)
        \/ SlowRead(t)
        \/ SlowMatch(t)

Spec == Init /\ [][Next]_vars

\* A step of thread t inside a call, other than taking the lock.
Running(t) ==
    \/ GetFontsReady(t)
    \/ GetFontsEnter(t)
    \/ ScanDone(t)
    \/ GetCacheReady(t)
    \/ GetCacheEnter(t)
    \/ NewCacheDone(t)
    \/ FastStep(t)
    \/ SlowStep(t)
    \/ SlowRead(t)
    \/ SlowMatch(t)

\* Fair scheduling: a thread that can run does run, and a thread that waits
\* for the mutex gets it if the mutex is free again and again.  Threads are
\* free never to call.
SpecFair ==
    Spec /\ \A t \in Threads : WF_vars(Running(t)) /\ SF_vars(Lock(t))

(***************************************************************************)
(* The fonts of the rendering thread.  The primary font has a letter and   *)
(* the space; the emoji font has one colour-bitmap glyph; the characters   *)
(* of FbChars are in neither.  Glyph ids are named after the character;    *)
(* GlyphId(0) is NotDef.                                                   *)
(***************************************************************************)
ZWSP == "zwsp"

LF == "LF"

PrimaryChars == {"a", " "}

EmojiChars == {"a", "e"}

Alphabet == PrimaryChars \cup EmojiChars \cup FbChars \cup {ZWSP, LF}

NotDef == "notdef"

\* The `fallback` of a glyph taken from the emoji font.
EmojiFont == -1

\* self.font.primary.font.glyph_id(c)
PrimaryGlyphId(c) == IF c \in PrimaryChars THEN c ELSE NotDef

\* emoji_font.font.glyph_id(c)
EmojiGlyphId(c) == IF c \in EmojiChars THEN c ELSE NotDef

\* fb.glyph_id(c)
FallbackGlyphId(f, c) == IF HasGlyph(f, c) THEN c ELSE NotDef

\* h_advance(glyph_id) of the scaled font `fallback`, or of the primary font.
Advance(fallback, id) ==
    IF fallback = None
    THEN (IF id = "a" THEN 2 * Sub + 1 ELSE IF id = " " THEN Sub + 1 ELSE 2 * Sub)
    ELSE IF fallback = EmojiFont THEN 4 * Sub + 2
    ELSE 2 * Sub + 2 + fallback

\* self.font.primary.kern(last_id, glyph_id)
Kern(last_id, id) ==
    IF last_id = " " \/ id = " " THEN 0
    ELSE IF last_id = id THEN -1
    ELSE -2

\* `last_primary_glyph = Some(glyph_id)` after a glyph of the primary font,
\* None after any other.
LastPrimaryAny(fallback, id) == id

LastPrimaryAfter(fallback, id) == IF fallback = None THEN id ELSE NoGlyph

\* self.font.primary.height() + self.font.primary.line_gap()
LineHeight == 5 * Sub + 2

\* `y += self.font.primary.height() + self.font.primary.line_gap()` at the
\* end of a line.
LineAdvanceNone(v) == v

LineAdvance(v) == v + LineHeight

\* x.round(): to the nearest pixel, halves away from zero.
Round(v) ==
    IF v >= 0
    THEN ((2 * v + Sub) \div (2 * Sub)) * Sub
    ELSE -(((2 * (-v) + Sub) \div (2 * Sub)) * Sub)

\* f32::floor and f32::ceil
Floor(v) == (v \div Sub) * Sub

Ceil(v) == -Floor(-v)

(***************************************************************************)
(* find_fallback_for_char run to its end by the rendering thread.          *)
(***************************************************************************)
\* ensure_fallback_cache
ensure_fallback_cache(cell) ==
    IF OnceReady(cell) THEN cell
    ELSE [state |-> "done",
          value |-> [f \in 1..Len(SYSTEM_FONTS.value) |-> CachedFontNew]]

\* The slow path from slot i on: the font returned and the slots left.
RECURSIVE SlowPath(_, _, _)
SlowPath(slots, c, i) ==
    IF i > Len(slots) THEN [font |-> None, slots |-> slots]
    ELSE IF SlowSkip(slots[i]) THEN SlowPath(slots, c, i + 1)
    ELSE LET f == SYSTEM_FONTS.value[i]
         IN IF ReadAndParse(f)
            THEN LET kept == [slots EXCEPT
                                 ![i] = SlotAfterLoad(@, f, HasGlyph(f, c))]
                 IN IF HasGlyph(f, c)
                    THEN [font |-> f, slots |-> kept]
                    ELSE SlowPath(kept, c, i + 1)
            ELSE SlowPath([slots EXCEPT ![i].load_failed = TRUE], c, i + 1)

\* The font returned (or None) and the cache cell left behind.
find_fallback_for_char(cell, c) ==
    LET ready == ensure_fallback_cache(cell)
        hit == FirstRetained(ready.value, c)
    IN IF hit # None
       THEN [font |-> hit, cell |-> ready]
       ELSE LET r == SlowPath(ready.value, c, 1)
            IN [font |-> r.font, cell |-> [ready EXCEPT !.value = r.slots]]

(***************************************************************************)
(* TextRenderer::layout, one character of the text at a time.              *)
(***************************************************************************)
\* (glyph_id, fallback) of c: primary font, emoji font, fallback resolver,
\* and at last the primary font's NotDef.
ResolveCharEmojiFirst(cell, c) ==
    IF emoji /\ EmojiGlyphId(c) # NotDef
    THEN [id |-> EmojiGlyphId(c), fallback |-> EmojiFont, cell |-> cell]
    ELSE LET r == find_fallback_for_char(cell, c)
         IN IF r.font # None
            THEN [id |-> FallbackGlyphId(r.font, c), fallback |-> r.font,
                  cell |-> r.cell]
            ELSE [id |-> PrimaryGlyphId(c), fallback |-> None, cell |-> r.cell]

ResolveChar(cell, c) ==
    LET primary_glyph_id == PrimaryGlyphId(c)
    IN IF primary_glyph_id # NotDef
       THEN [id |-> primary_glyph_id, fallback |-> None, cell |-> cell]
       ELSE IF emoji /\ EmojiGlyphId(c) # NotDef
       THEN [id |-> EmojiGlyphId(c), fallback |-> EmojiFont, cell |-> cell]
       ELSE LET r == find_fallback_for_char(cell, c)
            IN IF r.font # None
               THEN [id |-> FallbackGlyphId(r.font, c), fallback |-> r.font,
                     cell |-> r.cell]
               ELSE [id |-> primary_glyph_id, fallback |-> None,
                     cell |-> r.cell]

\* c == ' ' || c == ZWSP
SoftBreakCharSpaceOnly(c) == c = " "

SoftBreakChar(c) == c = " " \/ c = ZWSP

\* `if let Some(i) = last_softbreak`: the index to wrap at (None: no wrap),
\* with n glyphs pushed.
WrapAtOverflowing(softbreak, n) == IF softbreak = None THEN n ELSE softbreak

WrapAt(softbreak, n) == softbreak

\* `last_softbreak = None` after a wrap at i
SoftbreakKept(i) == i

SoftbreakAfterWrap(i) == None

\* The glyphs after a wrap at index i (from 1): those from i on are moved left
\* by the x of glyph i and put on the line at new_y.
WrappedFromStart(gs, i, new_y) ==
    LET x_diff == gs[i].x
    IN [k \in 1..Len(gs) |-> [gs[k] EXCEPT !.x = @ - x_diff, !.y = new_y]]

Wrapped(gs, i, new_y) ==
    LET x_diff == gs[i].x
    IN [k \in 1..Len(gs) |->
           IF k >= i THEN [gs[k] EXCEPT !.x = @ - x_diff, !.y = new_y]
           ELSE gs[k]]

\* The number of the input line being read (from 1).
CurrentLine == 1 + Cardinality({k \in 1..Len(text) : text[k] = LF})

Begin ==
    /\ lpc = "idle"
    /\ lpc' = "lines"
    /\ \E w \in {5 * Sub, 7 * Sub, F32Max} : max_width' = w
    /\ UNCHANGED <<text, emoji, glyphs, x, y, last_softbreak,
                   last_primary_glyph, resolved, out>>
    /\ UNCHANGED <<disk, SYSTEM_FONTS, FALLBACK_CACHE, outsideLayout>>

\* One iteration of `for c in line.chars()`, the first of a line after
\* `let mut x = 0.0; let mut last_softbreak = None; ..`.
LayoutChar ==
    /\ lpc \in {"lines", "chars"}
    /\ Len(text) < MaxTextLen
    /\ \E c \in Alphabet \ {LF} :
        LET x0 == IF lpc = "lines" THEN 0 ELSE x
            softbreak0 == IF lpc = "lines" THEN None ELSE last_softbreak
            last0 == IF lpc = "lines" THEN NoGlyph ELSE last_primary_glyph
            r == ResolveChar(FALLBACK_CACHE, c)
            kerned == IF r.fallback = None /\ last0 # NoGlyph
                      THEN x0 + Kern(last0, r.id) ELSE x0
            glyph == [id |-> r.id, fallback |-> r.fallback,
                      x |-> Round(kerned), y |-> Round(y),
                      c |-> c, line |-> CurrentLine]
            advanced == kerned + Advance(r.fallback, r.id)
            pushed == Append(glyphs, glyph)
            i == WrapAt(softbreak0, Len(pushed))
        IN /\ text' = Append(text, c)
           /\ resolved' = Append(resolved, r.fallback)
           /\ FALLBACK_CACHE' = r.cell
           /\ last_primary_glyph' = LastPrimaryAfter(r.fallback, r.id)
           /\ IF SoftBreakChar(c)
              THEN /\ last_softbreak' = Len(glyphs) + 1
                   /\ x' = advanced
                   /\ UNCHANGED <<glyphs, y>>
              ELSE IF advanced > max_width /\ i # None
              THEN /\ y' = y + LineHeight
                   /\ glyphs' = Wrapped(pushed, i, y + LineHeight)
                   /\ x' = advanced - pushed[i].x
                   /\ last_softbreak' = SoftbreakAfterWrap(i)
              ELSE /\ glyphs' = pushed
                   /\ x' = advanced
                   /\ last_softbreak' = softbreak0
                   /\ UNCHANGED y
    /\ lpc' = "chars"
    /\ UNCHANGED <<max_width, emoji, out>>
    /\ UNCHANGED <<disk, SYSTEM_FONTS, outsideLayout>>

\* A line terminator: the line read so far, empty or not, ends with
\* `y += height + line_gap`.
LayoutLineEnd ==
    /\ lpc \in {"lines", "chars"}
    /\ Len(text) < MaxTextLen
    /\ text' = Append(text, LF)
    /\ resolved' = Append(resolved, None)
    /\ y' = LineAdvance(y)
    /\ x' = 0
    /\ last_softbreak' = None
    /\ last_primary_glyph' = NoGlyph
    /\ lpc' = "lines"
    /\ UNCHANGED <<max_width, emoji, glyphs, out>>
    /\ UNCHANGED <<disk, SYSTEM_FONTS, FALLBACK_CACHE, outsideLayout>>

(***************************************************************************)
(* resolve_glyphs, RenderedGlyph::bounds, measure and finish               *)
(***************************************************************************)
\* outline_glyph(..) is Some: the glyph has a vector outline.
HasOutline(fallback, id) ==
    IF fallback = None THEN id # " "
    ELSE fallback # EmojiFont

\* glyph_raster_image2(..) is Some with GlyphImageFormat::Png.
HasPngImage(fallback, id) == fallback = EmojiFont

\* The outline's extent about the glyph's position.
OutlineBox(fallback, id) ==
    IF fallback = None
    THEN (IF id = NotDef
          THEN [minx |-> 1, miny |-> -3 * Sub, maxx |-> 2 * Sub - 1, maxy |-> 0]
          ELSE [minx |-> 1, miny |-> -2 * Sub - 2, maxx |-> 2 * Sub, maxy |-> 1])
    ELSE [minx |-> 0, miny |-> -3 * Sub + 1, maxx |-> 2 * Sub + fallback,
          maxy |-> 2]

\* OutlinedGlyph::px_bounds: the pixels the outline touches.
PxBounds(g) ==
    LET b == OutlineBox(g.fallback, g.id)
    IN [minx |-> Floor(g.x + b.minx), miny |-> Floor(g.y + b.miny),
        maxx |-> Ceil(g.x + b.maxx), maxy |-> Ceil(g.y + b.maxy)]

\* RenderedGlyph::Raster { pixmap, x, y } of a colour-bitmap glyph: the image
\* scaled to 4 x 4 pixels, its origin 1/2 pixel right of and 1/4 pixel above
\* the line `ascent` over the baseline.
RasterOf(g) ==
    LET fb_ascent == 3 * Sub + 2
    IN [kind |-> "Raster", w |-> 4 * Sub, h |-> 4 * Sub,
        x |-> g.x + 2, y |-> g.y - fb_ascent - 1]

\* RenderedGlyph::bounds
Bounds(r) ==
    IF r.kind = "Outlined" THEN r.px_bounds
    ELSE [minx |-> r.x, miny |-> r.y, maxx |-> r.x + r.w, maxy |-> r.y + r.h]

\* resolve_glyphs: filter_map over the placed glyphs, from glyph k on.
RECURSIVE resolve_glyphs_from(_, _)
resolve_glyphs_from(placed, k) ==
    IF k > Len(placed) THEN <<>>
    ELSE LET pg == placed[k]
             rest == resolve_glyphs_from(placed, k + 1)
         IN IF HasOutline(pg.fallback, pg.id)
            THEN <<[kind |-> "Outlined", px_bounds |-> PxBounds(pg)]>> \o rest
            ELSE IF HasPngImage(pg.fallback, pg.id)
            THEN <<RasterOf(pg)>> \o rest
            ELSE rest

resolve_glyphs(placed) == resolve_glyphs_from(placed, 1)

SetMin(S) == CHOOSE v \in S : \A u \in S : v <= u

SetMax(S) == CHOOSE v \in S : \A u \in S : v >= u

\* glyphs.iter().map(|g| g.bounds()).reduce(..).unwrap_or_default()
UnionBounds(rendered) ==
    LET bs == {Bounds(rendered[k]) : k \in 1..Len(rendered)}
    IN IF bs = {}
       THEN [minx |-> 0, miny |-> 0, maxx |-> 0, maxy |-> 0]
       ELSE [minx |-> SetMin({b.minx : b \in bs}),
             miny |-> SetMin({b.miny : b \in bs}),
             maxx |-> SetMax({b.maxx : b \in bs}),
             maxy |-> SetMax({b.maxy : b \in bs})]

\* measure: (bounds.width(), bounds.height()). `reduced` records that the
\* call went through the reduction of the glyphs' bounds, which measure does
\* for every text: nothing stands between resolve_glyphs and the reduction.
measure(placed) ==
    LET bounds == UnionBounds(resolve_glyphs(placed))
    IN [op |-> "measure", w |-> bounds.maxx - bounds.minx,
        h |-> bounds.maxy - bounds.miny, reduced |-> TRUE]

\* `as u32` of a length: whole pixels, negative values to 0.
AsU32(v) == IF v < 0 THEN 0 ELSE v \div Sub

\* `if glyphs.is_empty()` of finish
RenderedEmpty(rendered) == rendered = <<>>

\* `(bounds.width().ceil() as u32 + 2).max(1)`: a side of the canvas, in
\* pixels.
CanvasSideTight(length) ==
    LET side == AsU32(Ceil(length))
    IN IF side > 1 THEN side ELSE 1

CanvasSide(length) ==
    LET side == AsU32(Ceil(length)) + 2
    IN IF side > 1 THEN side ELSE 1

\* `-bounds.min.x.floor() as i32 + 1`, in pixels
BaseOffset(min) == -(Floor(min) \div Sub) + 1

\* finish: the canvas's width and height, in pixels. The early return of
\* the empty case comes before the reduction of the glyphs' bounds.
finish(placed) ==
    LET rendered == resolve_glyphs(placed)
        bounds == UnionBounds(rendered)
        width == CanvasSide(bounds.maxx - bounds.minx)
        height == CanvasSide(bounds.maxy - bounds.miny)
    IN IF RenderedEmpty(rendered)
       THEN [op |-> "finish", w |-> 1, h |-> 1, reduced |-> FALSE]
       ELSE [op |-> "finish", w |-> width, h |-> height, reduced |-> TRUE]

\* finish: the pixels of the canvas each rendered glyph is drawn to, as the
\* rectangle from (x0, y0) up to but not including (x1, y1): the pixels of
\* px_bounds from (gx, gy) for an outlined glyph, the bitmap's from (dx, dy)
\* for a raster glyph.
Drawn(placed) ==
    LET rendered == resolve_glyphs(placed)
        bounds == UnionBounds(rendered)
        base_x == BaseOffset(bounds.minx)
        base_y == BaseOffset(bounds.miny)
    IN [k \in 1..Len(rendered) |->
          LET g == rendered[k]
          IN IF g.kind = "Outlined"
             THEN LET gx == Floor(g.px_bounds.minx) \div Sub + base_x
                      gy == Floor(g.px_bounds.miny) \div Sub + base_y
                  IN [x0 |-> gx, y0 |-> gy,
                      x1 |-> gx + (g.px_bounds.maxx - g.px_bounds.minx) \div Sub,
                      y1 |-> gy + (g.px_bounds.maxy - g.px_bounds.miny) \div Sub]
             ELSE LET dx == Round(g.x) \div Sub + base_x
                      dy == Round(g.y) \div Sub + base_y
                  IN [x0 |-> dx, y0 |-> dy,
                      x1 |-> dx + g.w \div Sub, y1 |-> dy + g.h \div Sub]]

\* The text has been read to its end: a line not yet terminated ends, and
\* measure or finish returns.
LayoutEnd ==
    /\ lpc \in {"lines", "chars"}
    /\ y' = IF lpc = "chars" THEN LineAdvance(y) ELSE y
    /\ \E o \in {"measure", "finish"} :
          out' = IF o = "measure" THEN measure(glyphs) ELSE finish(glyphs)
    /\ lpc' = "done"
    /\ UNCHANGED <<text, max_width, emoji, glyphs, x, last_softbreak,
                   last_primary_glyph, resolved>>
    /\ UNCHANGED <<disk, SYSTEM_FONTS, FALLBACK_CACHE, outsideLayout>>

\* The caller has the result; the renderer is dropped.
LayoutDrop ==
    /\ lpc = "done"
    /\ lpc' = "idle"
    /\ text' = <<>>
    /\ max_width' = F32Max
    /\ glyphs' = <<>>
    /\ x' = 0
    /\ y' = 0
    /\ last_softbreak' = None
    /\ last_primary_glyph' = NoGlyph
    /\ resolved' = <<>>
    /\ out' = NoOut
    /\ UNCHANGED emoji
    /\ UNCHANGED <<disk, SYSTEM_FONTS, FALLBACK_CACHE, outsideLayout>>

\* Font files for the rendering thread: a font with x before one with x and
\* y; a file that does not parse before a font with y and the emoji.  The
\* fonts that parse have the letter of the primary font too.
LayoutDisks ==
    {<<[parses |-> TRUE, has |-> {"a", "x"}],
       [parses |-> TRUE, has |-> {"a", "x", "y"}]>>,
     <<[parses |-> FALSE, has |-> {}],
       [parses |-> TRUE, has |-> {"a", "e", "y"}]>>}

\* After Font::load: SYSTEM_FONTS is set, no fallback was asked for yet.
InitLayout ==
    /\ disk \in LayoutDisks
    /\ SYSTEM_FONTS = [state |-> "done", value |-> discover_system_fonts]
    /\ FALLBACK_CACHE = EmptyCell
    /\ mutex = 0
    /\ pc = [t \in Threads |-> "idle"]
    /\ op = [t \in Threads |-> "none"]
    /\ ch = [t \in Threads |-> "none"]
    /\ idx = [t \in Threads |-> 0]
    /\ loaded = [t \in Threads |-> FALSE]
    /\ result = [t \in Threads |-> None]
    /\ servable = [t \in Threads |-> FALSE]
    /\ scans = 1
    /\ cacheInits = 0
    /\ returned = {}
    /\ emoji \in BOOLEAN
    /\ OthersIdle

NextLayout ==
    \/ Begin
    \/ LayoutChar
    \/ LayoutLineEnd
    \/ LayoutEnd
    \/ LayoutDrop

SpecLayout == InitLayout /\ [][NextLayout]_vars

(***************************************************************************)
(* Claims about the fallback cache, checked under Spec.                    *)
(***************************************************************************)
\* The thread holds the cache: it is in the fast or the slow path.
InCache(t) == pc[t] \in {"fast", "slow", "read", "match"}

\* The thread is in the slow path, where files are read and slots written.
InSlowPath(t) == pc[t] \in {"slow", "read", "match"}

\* Thread t returns from find_fallback_for_char in this step.
Returns(t) == InCache(t) /\ pc'[t] = "returned"

Slots == 1..Len(cache)

\* C1: a slot whose load-failed flag is set holds no font handle; no thread
\* is ever reading or parsing the file of a slot whose flag is set; and the
\* flag, once set, stays set.
C1_FailedNeverRetried ==
    /\ [](/\ \A f \in Slots : cache[f].load_failed => cache[f].font = None
          /\ \A t \in Threads :
                pc[t] \in {"read", "match"} => ~cache[idx[t]].load_failed)
    /\ [][\A f \in Slots : cache[f].load_failed => cache'[f].load_failed]_vars

\* C1 witness: candidate f has failed, a later candidate g was retained by a
\* call that passed f, and a still later call has passed f again in its slow
\* path.
C1_Witness ==
    \E t \in Threads : \E f, g \in Slots :
        /\ cache[f].load_failed
        /\ f < g /\ cache[g].font # None
        /\ pc[t] = "slow" /\ idx[t] > f

\* C2: a slot holds a font handle only if find_fallback_for_char has returned
\* that font (the font read from the slot's own candidate); and the step that
\* finds a parsed font without the requested character leaves the slot empty
\* and not failed.
C2_RetainedOnlyIfReturned ==
    /\ [](\A f \in Slots :
             cache[f].font # None =>
                 cache[f].font = SYSTEM_FONTS.value[f] /\ cache[f].font \in returned)
    /\ [][\A t \in Threads :
             (/\ pc[t] = "match" /\ loaded[t]
              /\ ~HasGlyph(SYSTEM_FONTS.value[idx[t]], ch[t])
              /\ pc'[t] # "match")
             => cache'[idx[t]] = CachedFontNew]_vars

\* C2 witness: a candidate parsed once more, after an earlier call had loaded
\* and dropped it on its way to the later candidate it retained.
C2_Witness ==
    \E t \in Threads : \E g \in Slots :
        /\ pc[t] = "match" /\ loaded[t]
        /\ idx[t] < g /\ cache[g].font # None
        /\ ~HasGlyph(SYSTEM_FONTS.value[idx[t]], ch[t])

\* C3: a call that began after a font containing its character had been
\* returned never enters the slow path (no file is read, no slot written), no
\* slot changes while it holds the cache, and it returns the first retained
\* font, in candidate order, that contains the character.
C3_FastPathServes ==
    /\ [](\A t \in Threads : servable[t] => ~InSlowPath(t))
    /\ [][\A t \in Threads :
             /\ (servable[t] /\ InCache(t)) => cache' = cache
             /\ (servable[t] /\ Returns(t)) =>
                    /\ result'[t] # None
                    /\ result'[t] = FirstRetained(cache, ch[t])]_vars

\* C3 witness: such a call finds its character in the second slot.
C3_Witness ==
    \E t \in Threads :
        /\ servable[t] /\ pc[t] = "fast" /\ idx[t] = 2
        /\ FastHit(cache[2], ch[t])

\* C4: a returned font parses and maps c to a glyph; absent is returned only
\* when no candidate whose file reads and parses contains c.
C4_ReturnsFontIffSomeHasChar ==
    \A t \in Threads :
        pc[t] = "returned" =>
            /\ result[t] # None =>
                   ReadAndParse(result[t]) /\ HasGlyph(result[t], ch[t])
            /\ result[t] = None =>
                   \A f \in 1..Len(disk) :
                       ReadAndParse(f) => ~HasGlyph(f, ch[t])

\* C4 witness: a call returned the second candidate, and the first candidate
\* parses but lacks the character.
C4_Witness ==
    \E t \in Threads :
        /\ pc[t] = "returned" /\ result[t] = 2
        /\ ReadAndParse(1) /\ ~HasGlyph(1, ch[t])

\* C6: a thread in the fast or slow path owns the mutex, so at most one
\* thread is there at a time, and the cache's slots change only in a step of
\* the thread that owns the mutex.
C6_Serialized ==
    /\ [](\A t \in Threads : InCache(t) => mutex = t)
    /\ [][(OnceReady(FALLBACK_CACHE) /\ cache' # cache) =>
             \E t \in Threads :
                 mutex = t /\ InCache(t) /\ <<pc[t], idx[t]>> # <<pc'[t], idx'[t]>>]_vars

\* C6 witness: one thread reads a font file while another waits for the lock.
C6_Witness ==
    \E t, u \in Threads : pc[t] = "read" /\ pc[u] = "lock"

\* C7: discover_system_fonts runs at most once and the cache is built at most
\* once; SYSTEM_FONTS, once set, holds the scanned list and never changes; the
\* cache has one slot per candidate, always.
C7_ScanOnce ==
    /\ [](/\ scans <= 1
          /\ cacheInits <= 1
          /\ OnceReady(SYSTEM_FONTS) => SYSTEM_FONTS.value = discover_system_fonts
          /\ OnceReady(FALLBACK_CACHE) =>
                 /\ OnceReady(SYSTEM_FONTS)
                 /\ Len(cache) = Len(SYSTEM_FONTS.value))
    /\ [][/\ OnceReady(SYSTEM_FONTS) => SYSTEM_FONTS' = SYSTEM_FONTS
          /\ OnceReady(FALLBACK_CACHE) =>
                 OnceReady(FALLBACK_CACHE') /\ Len(cache') = Len(cache)]_vars

\* C7 witness: the first access is concurrent: one thread runs the scan from
\* load_text_font while find_fallback_for_char waits for it in another.
C7_Witness ==
    \E t, u \in Threads :
        /\ pc[t] = "scan" /\ op[t] = "load_text_font"
        /\ pc[u] = "get_fonts" /\ op[u] = "find_fallback_for_char"

(***************************************************************************)
(* Claims about layout, measure and finish, checked under SpecLayout.      *)
(***************************************************************************)
\* The fonts the characters of txt, from character k on, resolve to when the
\* layout starts with the cache cell `cell`.
RECURSIVE ResolvedFrom(_, _, _)
ResolvedFrom(txt, k, cell) ==
    IF k > Len(txt) THEN <<>>
    ELSE IF txt[k] = LF THEN <<None>> \o ResolvedFrom(txt, k + 1, cell)
    ELSE LET r == ResolveChar(cell, txt[k])
         IN <<r.fallback>> \o ResolvedFrom(txt, k + 1, r.cell)

\* The number of the input line character k of the text is on.
LineOf(k) == 1 + Cardinality({j \in 1..(k - 1) : text[j] = LF})

\* Input line l has no break opportunity: no space, no zero-width space.
NoBreakLine(l) ==
    \A k \in 1..Len(text) : LineOf(k) = l => ~SoftBreakChar(text[k])

\* The indices of the glyphs placed for input line l.
GlyphsOfLine(l) == {g \in 1..Len(glyphs) : glyphs[g].line = l}

\* C5: rendering is deterministic with respect to cache state: with the
\* candidate list fixed, every character of a laid-out text is resolved to the
\* font it is resolved to when the same text is laid out with the fallback
\* cache still empty, whatever earlier lookups have left in the cache.
C5_CacheIndependent ==
    lpc = "done" => resolved = ResolvedFrom(text, 1, EmptyCell)

\* C8: finish() returns a canvas of exactly 1x1 pixels whenever the resolved
\* glyph sequence is empty, in particular when the text is empty or has only
\* spaces, zero-width spaces and line terminators.
C8_EmptyIsOneByOne ==
    (lpc = "done" /\ out.op = "finish") =>
        /\ resolve_glyphs(glyphs) = <<>> => (out.w = 1 /\ out.h = 1)
        /\ (\A k \in 1..Len(text) : text[k] \in {" ", ZWSP, LF}) =>
               (out.w = 1 /\ out.h = 1)

C8_Witness ==
    /\ lpc = "done"
    /\ out.op = "finish"
    /\ \E j, k \in 1..Len(text) : text[j] = ZWSP /\ text[k] = " "
    /\ \A k \in 1..Len(text) : text[k] \in {" ", ZWSP, LF}
    /\ out.w = 1
    /\ out.h = 1

\* C9: for every non-empty single-line ASCII text, measure() returns a
\* strictly positive width and a strictly positive height.
C9_MeasurePositive ==
    (/\ lpc = "done"
     /\ out.op = "measure"
     /\ text # <<>>
     /\ \A k \in 1..Len(text) : text[k] \in {"a", " "}) =>
        (out.w > 0 /\ out.h > 0)

\* C10: layout() moves glyphs to a new line only at a recorded break
\* opportunity: the glyphs of an input line with no space and no zero-width
\* space all have the same y, however far the advance exceeds max_width.
C10_NoWrapWithoutBreak ==
    \A g, h \in 1..Len(glyphs) :
        (glyphs[g].line = glyphs[h].line /\ NoBreakLine(glyphs[g].line)) =>
            glyphs[g].y = glyphs[h].y

C10_Witness ==
    /\ lpc = "chars"
    /\ x > max_width + 2 * Sub
    /\ NoBreakLine(CurrentLine)
    /\ Cardinality(GlyphsOfLine(CurrentLine)) >= 3
    /\ CurrentLine > 1

\* The glyphs placed for the first input line.
FirstLineGlyphs == SelectSeq(glyphs, LAMBDA g : g.line = 1)

\* The step reads a line terminator, or reaches the end of the text inside a
\* line: the line ends.
LineEnds ==
    \/ lpc \in {"lines", "chars"} /\ Len(text') = Len(text) + 1
          /\ text'[Len(text')] = LF
    \/ lpc = "chars" /\ lpc' = "done"

\* The step lays out one character of a line.
CharLaidOut ==
    lpc \in {"lines", "chars"} /\ lpc' = "chars"

\* C11: each input line advances y by exactly one line height, and each wrap
\* inside a line by one more; so the glyphs of a later input line lie strictly
\* below those of every earlier input line, and a multi-line text never
\* measures lower than its first line alone.
C11_LineAdvancesY ==
    /\ [](/\ \A g, h \in 1..Len(glyphs) :
                glyphs[g].line < glyphs[h].line => glyphs[g].y < glyphs[h].y
          /\ (lpc = "done" /\ out.op = "measure") =>
                out.h >= measure(FirstLineGlyphs).h)
    /\ [][/\ LineEnds => y' = y + LineHeight
          /\ CharLaidOut =>
                \/ y' = y
                \/ /\ y' = y + LineHeight
                   /\ lpc = "chars"
                   /\ last_softbreak # None
                   /\ last_softbreak' = None
          /\ (lpc = "lines" /\ lpc' = "done") => y' = y
          /\ (CharLaidOut /\ CurrentLine > 1) =>
                SelectSeq(glyphs', LAMBDA g : g.line = 1) = FirstLineGlyphs]_vars

C11_Witness ==
    /\ lpc = "done"
    /\ out.op = "measure"
    /\ \E g, h \in 1..Len(glyphs) :
          /\ glyphs[g].line = 1
          /\ glyphs[g].y = LineHeight
          /\ glyphs[h].line = 2
          /\ glyphs[h].y > 2 * LineHeight - Sub
    /\ out.h > measure(FirstLineGlyphs).h

\* The candidates that load and contain c.
LoadableWith(c) ==
    {f \in 1..Len(disk) : ReadAndParse(f) /\ HasGlyph(f, c)}

\* The fonts layout may record for c, by the order primary font, emoji font,
\* fallback resolver, primary font's NotDef.
RouteOf(c) ==
    IF c \in PrimaryChars THEN {None}
    ELSE IF emoji /\ c \in EmojiChars THEN {EmojiFont}
    ELSE IF LoadableWith(c) # {} THEN LoadableWith(c)
    ELSE {None}

\* C12: every character is resolved by the primary font, else by the emoji
\* font if one is loaded, else by find_fallback_for_char, else to the primary
\* font's NotDef with no fallback font; a fallback font is recorded exactly for
\* glyphs of the emoji font or the resolver, and a character no font has is
\* laid out all the same.
C12_ResolutionOrder ==
    /\ Len(resolved) = Len(text)
    /\ \A k \in 1..Len(text) :
          text[k] # LF => resolved[k] \in RouteOf(text[k])
    /\ \A g \in 1..Len(glyphs) :
          LET pg == glyphs[g]
          IN /\ pg.fallback \in RouteOf(pg.c)
             /\ pg.fallback = None =>
                   pg.id = (IF pg.c \in PrimaryChars THEN pg.c ELSE NotDef)
             /\ pg.fallback # None => pg.id = pg.c
             /\ pg.fallback # None <=>
                   /\ pg.c \notin PrimaryChars
                   /\ \/ emoji /\ pg.c \in EmojiChars
                      \/ LoadableWith(pg.c) # {}

C12_Witness ==
    /\ lpc = "done"
    /\ Len(glyphs) = 4
    /\ glyphs[1].id = "a" /\ glyphs[1].fallback = None
    /\ glyphs[2].id = "e" /\ glyphs[2].fallback = EmojiFont
    /\ LoadableWith("e") # {}
    /\ glyphs[3].id = "y" /\ glyphs[3].fallback = 2
    /\ glyphs[4].id = NotDef /\ glyphs[4].fallback = None /\ glyphs[4].c = "x"

\* The kerning C13 allows for the character the step lays out: that of the
\* primary font's pair (previous glyph, this glyph) when both the character
\* and its predecessor on the same input line resolved to the primary font,
\* none otherwise.
KernAllowed ==
    LET n == Len(text')
        c == text'[n]
    IN IF /\ resolved'[n] = None
          /\ lpc = "chars"
          /\ resolved[n - 1] = None
       THEN Kern(PrimaryGlyphId(text[n - 1]), PrimaryGlyphId(c))
       ELSE 0

\* x after the step's character, were no wrap performed.
AdvancedWith(kern) ==
    LET n == Len(text')
        c == text'[n]
        id == IF resolved'[n] = None THEN PrimaryGlyphId(c) ELSE c
    IN (IF lpc = "lines" THEN 0 ELSE x) + kern + Advance(resolved'[n], id)

\* C13: kerning is added to x only for a glyph of the primary font whose
\* immediately preceding character on the same input line was resolved from
\* the primary font too: never for a glyph of the emoji or a fallback font,
\* for the first primary glyph after one, or for the first character of a line.
C13_KerningWithinPrimary ==
    [][CharLaidOut =>
          LET kerned == AdvancedWith(KernAllowed)
                           - AdvancedWith(0) + (IF lpc = "lines" THEN 0 ELSE x)
          IN /\ y' = y => x' = AdvancedWith(KernAllowed)
             /\ (y' = y /\ Len(glyphs') > Len(glyphs)) =>
                   glyphs'[Len(glyphs')].x = Round(kerned)
             /\ y' # y =>
                   x' = AdvancedWith(KernAllowed)
                           - (IF last_softbreak <= Len(glyphs)
                              THEN glyphs[last_softbreak].x
                              ELSE Round(kerned))]_vars

C13_Witness ==
    /\ lpc = "chars"
    /\ max_width = F32Max
    /\ text = <<"a", "a", "x", "a">>
    /\ resolved[3] > 0
    /\ last_primary_glyph = "a"
    /\ glyphs[2].x = Round(Advance(None, "a") + Kern("a", "a"))
    /\ x = 3 * Advance(None, "a") + Kern("a", "a") + Advance(resolved[3], "x")

(***************************************************************************)
(* File names and font_priority.  A file name is a sequence of words; a    *)
(* path is the name followed by its extension.  `contains` looks for a     *)
(* keyword inside one word; keywords that would span two words are not     *)
(* modelled.                                                               *)
(***************************************************************************)
\* The words of the names scored.
NameWords ==
    {"noto", "sans", "Sans", "-regular", "dejavu", "liberation", "ubuntu",
     "cantarell", "foo", "-bold", "mono", "emoji", "symbol", "nerdfont",
     "cjk", "["}

\* "ttf" | "otf" | "ttc"
FontExts == {".ttf", ".otf", ".ttc"}

\* Path::file_stem: the file name without its extension.
file_stem(path) ==
    IF Len(path) > 1 /\ path[Len(path)] \in FontExts
    THEN SubSeq(path, 1, Len(path) - 1)
    ELSE path

\* str::to_ascii_lowercase
to_ascii_lowercase(n) ==
    [i \in 1..Len(n) |-> IF n[i] = "Sans" THEN "sans" ELSE n[i]]

\* The keywords that are substrings of one word.
SubstringsOf(w) ==
    IF w = "-regular" THEN {"regular"}
    ELSE IF w = "-bold" THEN {"bold"}
    ELSE {w}

\* name.contains(kw)
Contains(n, kw) == \E i \in 1..Len(n) : kw \in SubstringsOf(n[i])

ExoticKeywords ==
    {"[", "]", "adlam", "arabic", "hebrew", "thai", "cjk", "korean",
     "japanese", "indic", "syriac", "myanmar", "ethiopic"}

EmojiKeywords == {"emoji", "color", "symbol", "nerdfont"}

VariantKeywords ==
    {"bold", "italic", "oblique", "mono", "condensed", "light", "thin",
     "black", "semibold", "extrabold"}

\* `let base = if name == "notosans" ..`: the preference table.
BaseScore(n) ==
    IF n = <<"noto", "sans">> \/ n = <<"noto", "sans", "-regular">> THEN 1
    ELSE IF n = <<"dejavu", "sans">> THEN 2
    ELSE IF Contains(n, "liberation") /\ Contains(n, "sans") THEN 3
    ELSE IF Contains(n, "ubuntu") /\ Contains(n, "regular") THEN 4
    ELSE IF n = <<"cantarell">> \/ n = <<"cantarell", "-regular">> THEN 5
    ELSE IF Contains(n, "noto") /\ Contains(n, "sans") THEN 6
    ELSE IF Contains(n, "sans") THEN 10
    ELSE 50

\* `if is_variant { base + 50 } else { base }`, in u8.
VariantPenaltyNone(is_variant, base) == base

VariantPenalty(is_variant, base) ==
    IF is_variant THEN (base + 50) % 256 ELSE base

\* The early returns of font_priority and its last expression.
ScoreOfEmojiFirst(is_exotic, is_emoji, is_variant, base) ==
    IF is_emoji THEN 8
    ELSE IF is_exotic THEN 255
    ELSE VariantPenalty(is_variant, base)

ScoreOf(is_exotic, is_emoji, is_variant, base) ==
    IF is_exotic THEN 255
    ELSE IF is_emoji THEN 8
    ELSE VariantPenalty(is_variant, base)

font_priority(path) ==
    LET n == to_ascii_lowercase(file_stem(path))
        is_exotic == \E kw \in ExoticKeywords : Contains(n, kw)
        is_emoji == \E kw \in EmojiKeywords : Contains(n, kw)
        is_variant == \E kw \in VariantKeywords : Contains(n, kw)
    IN ScoreOf(is_exotic, is_emoji, is_variant, BaseScore(n))

\* The next word of a file name.
NameWord ==
    /\ fpc \in {"idle", "naming"}
    /\ Len(name) < MaxNameLen
    /\ \E w \in NameWords : name' = Append(name, w)
    /\ fpc' = "naming"
    /\ UNCHANGED <<priority, collected, parses, entries, text_font, emoji_font>>
    /\ UNCHANGED outsideFonts

\* `let priority = font_priority(&path);`
Score ==
    /\ fpc \in {"idle", "naming"}
    /\ \E ext \in FontExts : priority' = font_priority(Append(name, ext))
    /\ fpc' = "scored"
    /\ UNCHANGED <<name, collected, parses, entries, text_font, emoji_font>>
    /\ UNCHANGED outsideFonts

(***************************************************************************)
(* One directory scan.  The font files on disk are FontFileNames; a walk   *)
(* may come across a file more than once, directly or through a link.      *)
(***************************************************************************)
\* The names of the font files, by canonical path.
FontFileNames ==
    <<(<<"foo">>), (<<"noto", "Sans", "-regular">>),
      (<<"noto", "color", "emoji">>), (<<"bar">>)>>

FontFileIds == 1..Len(FontFileNames)

\* The paths a walk can find: a file, or a link to it in another directory.
FoundPaths == [via : {"file", "link"}, file : FontFileIds]

\* e.path.canonicalize()
canonicalize(path) == path.file

\* The path's components after its directory.
PathName(path) == Append(FontFileNames[path.file], ".ttf")

\* FontArc::try_from_slice(FALLBACK_FONT).unwrap()
EmbeddedFont == -2

\* entries.retain(|e| seen.insert(key)): the first entry of each canonical path.
Retain(es) ==
    LET keep == {i \in 1..Len(es) :
                    \A j \in 1..(i - 1) :
                        canonicalize(es[j].path) # canonicalize(es[i].path)}
        RECURSIVE from(_)
        from(i) == IF i > Len(es) THEN <<>>
                   ELSE IF i \in keep THEN <<es[i]>> \o from(i + 1)
                   ELSE from(i + 1)
    IN from(1)

\* One insertion of the stable sort: e goes behind every entry whose key is
\* not larger.
InsertBeforeEqual(sorted, e) ==
    LET n == Cardinality({i \in 1..Len(sorted) :
                             sorted[i].priority < e.priority})
    IN SubSeq(sorted, 1, n) \o <<e>> \o SubSeq(sorted, n + 1, Len(sorted))

InsertByKey(sorted, e) ==
    LET n == Cardinality({i \in 1..Len(sorted) :
                             sorted[i].priority <= e.priority})
    IN SubSeq(sorted, 1, n) \o <<e>> \o SubSeq(sorted, n + 1, Len(sorted))

\* entries.sort_by_key(|e| e.priority)
RECURSIVE SortFrom(_, _, _)
SortFrom(es, k, sorted) ==
    IF k > Len(es) THEN sorted
    ELSE SortFrom(es, k + 1, InsertByKey(sorted, es[k]))

sort_by_key(es) == SortFrom(es, 1, <<>>)

\* `if name.contains("emoji") || name.contains("color") ||
\* name.contains("symbol") { continue; }` of load_text_font
SkippedForTextNever(n) == FALSE

SkippedForText(n) ==
    Contains(n, "emoji") \/ Contains(n, "color") \/ Contains(n, "symbol")

\* load_text_font: the canonical file of the font returned, or EmbeddedFont.
load_text_font(es) ==
    LET ok == {i \in 1..Len(es) :
                  /\ ~SkippedForText(
                        to_ascii_lowercase(file_stem(PathName(es[i].path))))
                  /\ parses[canonicalize(es[i].path)]}
    IN IF ok = {} THEN EmbeddedFont
       ELSE canonicalize(es[CHOOSE i \in ok : \A j \in ok : i <= j].path)

\* load_emoji_font: the canonical file of the font returned, or None.
load_emoji_font(es) ==
    LET ok == {i \in 1..Len(es) :
                  LET n == to_ascii_lowercase(file_stem(PathName(es[i].path)))
                  IN /\ Contains(n, "emoji") \/ Contains(n, "color")
                     /\ parses[canonicalize(es[i].path)]}
    IN IF ok = {} THEN None
       ELSE canonicalize(es[CHOOSE i \in ok : \A j \in ok : i <= j].path)

\* discover_system_fonts begins; which files parse is fixed from here on.
StartScan ==
    /\ fpc = "idle"
    /\ fpc' = "collect"
    /\ parses' \in [FontFileIds -> BOOLEAN]
    /\ UNCHANGED <<name, priority, collected, entries, text_font, emoji_font>>
    /\ UNCHANGED outsideFonts

\* collect_fonts_recursive comes across one font file.
Collect ==
    /\ fpc = "collect"
    /\ Len(entries) < MaxFound
    /\ \E path \in FoundPaths :
          /\ entries' = Append(entries,
                [path |-> path, priority |-> font_priority(PathName(path))])
          /\ collected' = Append(collected, path)
    /\ UNCHANGED <<fpc, name, priority, parses, text_font, emoji_font>>
    /\ UNCHANGED outsideFonts

\* The rest of discover_system_fonts: deduplicate, then sort.
Discover ==
    /\ fpc = "collect"
    /\ entries' = sort_by_key(Retain(entries))
    /\ fpc' = "sorted"
    /\ UNCHANGED <<name, priority, collected, parses, text_font, emoji_font>>
    /\ UNCHANGED outsideFonts

\* `let text_font = Self::load_text_font();`
LoadTextFont ==
    /\ fpc = "sorted"
    /\ text_font' = load_text_font(entries)
    /\ fpc' = "text"
    /\ UNCHANGED <<name, priority, collected, parses, entries, emoji_font>>
    /\ UNCHANGED outsideFonts

\* `let emoji_font = Self::load_emoji_font();`
LoadEmojiFont ==
    /\ fpc = "text"
    /\ emoji_font' = load_emoji_font(entries)
    /\ fpc' = "loaded"
    /\ UNCHANGED <<name, priority, collected, parses, entries, text_font>>
    /\ UNCHANGED outsideFonts

\* Nothing scored or scanned yet; the statics are not used.
InitFonts ==
    /\ disk = <<>>
    /\ SYSTEM_FONTS = EmptyCell
    /\ FALLBACK_CACHE = EmptyCell
    /\ mutex = 0
    /\ pc = [t \in Threads |-> "idle"]
    /\ op = [t \in Threads |-> "none"]
    /\ ch = [t \in Threads |-> "none"]
    /\ idx = [t \in Threads |-> 0]
    /\ loaded = [t \in Threads |-> FALSE]
    /\ result = [t \in Threads |-> None]
    /\ servable = [t \in Threads |-> FALSE]
    /\ scans = 0
    /\ cacheInits = 0
    /\ returned = {}
    /\ emoji = FALSE
    /\ OthersIdle

NextFonts ==
    \/ NameWord
    \/ Score
    \/ StartScan
    \/ Collect
    \/ Discover
    \/ LoadTextFont
    \/ LoadEmojiFont

SpecFonts == InitFonts /\ [][NextFonts]_vars

(***************************************************************************)
(* Claims about font_priority and the directory scan, checked under        *)
(* SpecFonts.                                                              *)
(***************************************************************************)
\* The name being scored, in lower case.
LowerName == to_ascii_lowercase(name)

\* The name has none of the keywords of font_priority's three keyword lists.
PlainName ==
    \A kw \in ExoticKeywords \cup EmojiKeywords \cup VariantKeywords :
        ~Contains(LowerName, kw)

\* The name is that of a family of the preference table.
PreferredFamily ==
    \/ Contains(LowerName, "sans")
    \/ Contains(LowerName, "ubuntu") /\ Contains(LowerName, "regular")
    \/ LowerName \in {<<"cantarell">>, <<"cantarell", "-regular">>}

\* Plain names of preferred families, and plain names of none.
PreferredExamples ==
    {<<"noto", "Sans">>, <<"dejavu", "sans">>, <<"liberation", "sans">>,
     <<"ubuntu", "-regular">>, <<"cantarell">>, <<"foo", "sans">>}

GenericExamples == {<<>>, <<"foo">>, <<"foo", "-regular">>, <<"ubuntu">>}

\* C14: a file name of a preferred sans-serif family scores strictly less than
\* a generic name, so it sorts first; a bold suffix appended to either gives a
\* strictly larger score than the name without it.  (The names are those
\* without a style, emoji or script keyword of their own.)
C14_PreferredBeforeGeneric ==
    (fpc = "scored" /\ PlainName) =>
        /\ PreferredFamily =>
              \A g \in GenericExamples :
                  priority < font_priority(Append(g, ".ttf"))
        /\ ~PreferredFamily =>
              \A p \in PreferredExamples :
                  font_priority(Append(p, ".ttf")) < priority
        /\ font_priority(name \o <<"-bold", ".ttf">>) > priority

C14_Witness ==
    /\ fpc = "scored"
    /\ name = <<"noto", "Sans", "-regular">>
    /\ priority = 1
    /\ font_priority(name \o <<"-bold", ".ttf">>) = 56

\* C15: font_priority gives 255 to a name with a bracket or an exotic-script
\* keyword; otherwise 8 to a name with an emoji, color or symbol keyword;
\* otherwise a base of the preference table (1, 2, 3, 4, 5, 6, 10 or 50), plus
\* 50 when the name has a style or weight keyword.  255 and 8 never get the
\* +50, and the sum stays within 8 bits.
C15_ScorePrecedence ==
    fpc = "scored" =>
        LET is_exotic == \E kw \in ExoticKeywords : Contains(LowerName, kw)
            is_emoji == \E kw \in EmojiKeywords : Contains(LowerName, kw)
            is_variant == \E kw \in VariantKeywords : Contains(LowerName, kw)
        IN /\ is_exotic => priority = 255
           /\ (~is_exotic /\ is_emoji) => priority = 8
           /\ (~is_exotic /\ ~is_emoji) =>
                 priority - (IF is_variant THEN 50 ELSE 0)
                     \in {1, 2, 3, 4, 5, 6, 10, 50}
           /\ priority \in 0..255

C15_Witness ==
    /\ fpc = "scored"
    /\ name = <<"dejavu", "Sans", "mono">>
    /\ priority = 60

\* The place of a path's canonical file in the order of discovery.
FirstSeen(path) ==
    CHOOSE k \in 1..Len(collected) :
        /\ canonicalize(collected[k]) = canonicalize(path)
        /\ \A j \in 1..(k - 1) :
              canonicalize(collected[j]) # canonicalize(path)

\* C16: the list discover_system_fonts returns is sorted by ascending
\* priority score, and candidates of equal score are in the order in which
\* they were discovered.
C16_SortedStable ==
    fpc \in {"sorted", "text", "loaded"} =>
        /\ {canonicalize(entries[i].path) : i \in 1..Len(entries)}
              = {canonicalize(collected[k]) : k \in 1..Len(collected)}
        /\ \A i, j \in 1..Len(entries) :
              i < j =>
                 /\ canonicalize(entries[i].path) # canonicalize(entries[j].path)
                 /\ entries[i].priority <= entries[j].priority
                 /\ entries[i].priority = entries[j].priority =>
                       FirstSeen(entries[i].path) < FirstSeen(entries[j].path)
        /\ \A i \in 1..Len(entries) :
              /\ entries[i].priority = font_priority(PathName(entries[i].path))
              /\ entries[i].path = collected[FirstSeen(entries[i].path)]

C16_Witness ==
    /\ fpc = "sorted"
    /\ Len(collected) = 3
    /\ canonicalize(collected[1]) = 4
    /\ canonicalize(collected[2]) = 1
    /\ canonicalize(collected[3]) = 2
    /\ entries = <<[path |-> collected[3], priority |-> 1],
                   [path |-> collected[1], priority |-> 50],
                   [path |-> collected[2], priority |-> 50]>>

\* Candidate i of the sorted list qualifies as the text font: its name has no
\* emoji, color or symbol keyword and its file reads and parses.
Qualifies(i) ==
    LET n == to_ascii_lowercase(file_stem(PathName(entries[i].path)))
    IN /\ ~Contains(n, "emoji")
       /\ ~Contains(n, "color")
       /\ ~Contains(n, "symbol")
       /\ parses[canonicalize(entries[i].path)]

\* C17: load_text_font returns the first candidate, in sorted list order,
\* that qualifies, and the embedded font when none does; so it never fails and
\* never returns a font with an emoji name.
C17_TextFontFirstQualifying ==
    fpc \in {"text", "loaded"} =>
        /\ text_font # NoFont
        /\ text_font = EmbeddedFont <=> \A i \in 1..Len(entries) : ~Qualifies(i)
        /\ text_font # EmbeddedFont =>
              \E i \in 1..Len(entries) :
                  /\ canonicalize(entries[i].path) = text_font
                  /\ Qualifies(i)
                  /\ \A j \in 1..(i - 1) : ~Qualifies(j)

C17_Witness ==
    /\ fpc = "text"
    /\ Len(entries) = 3
    /\ canonicalize(entries[1].path) = 2 /\ ~parses[2]
    /\ canonicalize(entries[2].path) = 3 /\ parses[3]
    /\ canonicalize(entries[3].path) = 1
    /\ text_font = 1

(***************************************************************************)
(* The program: main, run, MessageBuilder::show, DialogResult::exit_code.  *)
(***************************************************************************)
\* DialogResult
Button(n) == [tag |-> "Button", n |-> n]

Closed == [tag |-> "Closed", n |-> 0]

Timeout == [tag |-> "Timeout", n |-> 0]

\* DialogResult::exit_code
exit_code(r) ==
    IF r.tag = "Button" THEN (IF r.n <= 2 THEN r.n ELSE 3)
    ELSE IF r.tag = "Timeout" THEN 5
    ELSE 1

\* ButtonPreset::labels of the presets run uses.
PresetLabels(preset) ==
    IF preset = "Ok" THEN <<"OK">>
    ELSE IF preset = "Empty" THEN <<>>
    ELSE <<"Yes", "No">>

\* The preset run gives each dialog type.
PresetOf(type) == IF type = "Question" THEN "YesNo" ELSE "Ok"

\* labels.reverse()
Reverse(s) == [i \in 1..Len(s) |-> s[Len(s) + 1 - i]]

\* original_index[i], for the button at place i (from 1) of `buttons`.
original_index(i) == Len(buttons) - i

\* The arguments parser.next() can yield.
ArgKinds ==
    {"--help", "-h", "--version", "--info", "--warning", "--error",
     "--question", "--title=T", "--title", "--text=X", "--calendar", "V",
     "--bogus"}

\* main: the exit code of `Ok(result)`.
ExitOk(r, why) ==
    /\ exit_status' = exit_code(r) % 256
    /\ cause' = why
    /\ dpc' = "exited"

\* main: the exit code of `Err(e)`.
ExitErr ==
    /\ exit_status' = 100
    /\ cause' = [kind |-> "error", label |-> ""]
    /\ dpc' = "exited"

\* One turn of `while let Some(arg) = parser.next()?`.
ParseArg ==
    /\ dpc = "args"
    /\ nargs < MaxArgs
    /\ nargs' = nargs + 1
    /\ \E arg \in ArgKinds :
          IF arg \in {"--help", "-h", "--version"}
          THEN /\ ExitOk(Button(0), [kind |-> "help", label |-> ""])
               /\ UNCHANGED <<dialog_type, title, dtext>>
          ELSE IF arg \in {"--calendar", "--bogus", "--title"}
          THEN /\ ExitErr
               /\ UNCHANGED <<dialog_type, title, dtext>>
          ELSE /\ dialog_type' =
                     IF arg = "--info" THEN "Info"
                     ELSE IF arg = "--warning" THEN "Warning"
                     ELSE IF arg = "--error" THEN "Error"
                     ELSE IF arg = "--question" THEN "Question"
                     ELSE dialog_type
               /\ title' = IF arg = "--title=T" THEN "T" ELSE title
               /\ dtext' = IF arg = "--text=X" THEN "X"
                           ELSE IF arg = "V" /\ dtext = "" THEN "V"
                           ELSE dtext
               /\ UNCHANGED <<dpc, cause, exit_status>>
    /\ UNCHANGED buttons
    /\ UNCHANGED outsideDialog

\* The arguments are read: the dialog is built and shown.
Show ==
    /\ dpc = "args"
    /\ dialog_type' = IF dialog_type = NoDialogType THEN "Info" ELSE dialog_type
    /\ buttons' = Reverse(PresetLabels(PresetOf(dialog_type')))
    /\ dpc' = "showing"
    /\ UNCHANGED <<nargs, title, dtext, cause, exit_status>>
    /\ UNCHANGED outsideDialog

\* A `?` of show fails: the window, its contents or its events.
ShowFails ==
    /\ dpc \in {"args", "showing"}
    /\ ExitErr
    /\ UNCHANGED <<nargs, dialog_type, title, dtext, buttons>>
    /\ UNCHANGED outsideDialog

\* WindowEvent::CloseRequested
CloseRequested ==
    /\ dpc = "showing"
    /\ ExitOk(Closed, [kind |-> "close", label |-> ""])
    /\ UNCHANGED <<nargs, dialog_type, title, dtext, buttons>>
    /\ UNCHANGED outsideDialog

\* WindowEvent::KeyPress of KEY_ESCAPE or KEY_RETURN
KeyPress ==
    /\ dpc = "showing"
    /\ \E keysym \in {"KEY_ESCAPE", "KEY_RETURN"} :
          IF keysym = "KEY_ESCAPE"
          THEN ExitOk(Closed, [kind |-> "escape", label |-> ""])
          ELSE /\ buttons # <<>>
               /\ ExitOk(Button(0), [kind |-> "return", label |-> ""])
    /\ UNCHANGED <<nargs, dialog_type, title, dtext, buttons>>
    /\ UNCHANGED outsideDialog

\* `if button.was_clicked()` for the button at place i
ButtonClicked ==
    /\ dpc = "showing"
    /\ \E i \in 1..Len(buttons) :
          ExitOk(Button(original_index(i)),
                 [kind |-> "click", label |-> buttons[i]])
    /\ UNCHANGED <<nargs, dialog_type, title, dtext, buttons>>
    /\ UNCHANGED outsideDialog

\* The program starts.
InitDialog ==
    /\ disk = <<>>
    /\ SYSTEM_FONTS = EmptyCell
    /\ FALLBACK_CACHE = EmptyCell
    /\ mutex = 0
    /\ pc = [t \in Threads |-> "idle"]
    /\ op = [t \in Threads |-> "none"]
    /\ ch = [t \in Threads |-> "none"]
    /\ idx = [t \in Threads |-> 0]
    /\ loaded = [t \in Threads |-> FALSE]
    /\ result = [t \in Threads |-> None]
    /\ servable = [t \in Threads |-> FALSE]
    /\ scans = 0
    /\ cacheInits = 0
    /\ returned = {}
    /\ emoji = FALSE
    /\ LayoutIdle /\ FontsIdle /\ RingIdle /\ ShowIdle /\ CanvasIdle
    /\ WidgetsIdle
    /\ dpc = "args"
    /\ nargs = 0
    /\ dialog_type = NoDialogType
    /\ title = ""
    /\ dtext = ""
    /\ buttons = <<>>
    /\ cause = [kind |-> "none", label |-> ""]
    /\ exit_status = NoExit

NextDialog ==
    \/ ParseArg
    \/ Show
    \/ ShowFails
    \/ CloseRequested
    \/ KeyPress
    \/ ButtonClicked

SpecDialog == InitDialog /\ [][NextDialog]_vars

\* C18: the exit code is that of the table --help prints: 0 when the OK or
\* Yes button is clicked, 1 when the Cancel or No button is clicked, 255 when
\* the dialog is closed without a button being clicked, 100 on an error.
C18_ExitCodeTable ==
    dpc = "exited" =>
        /\ (cause.kind = "click" /\ cause.label \in {"OK", "Yes"}) =>
              exit_status = 0
        /\ (cause.kind = "click" /\ cause.label \in {"Cancel", "No"}) =>
              exit_status = 1
        /\ cause.kind \in {"close", "escape"} => exit_status = 255
        /\ cause.kind = "error" => exit_status = 100

(***************************************************************************)
(* RingBufferCache.  `storage` is a function from the keys present to      *)
(* their values.                                                           *)
(***************************************************************************)
RowKeys == 0..MaxKey

CacheValues == {10, 20}

\* BTreeMap::contains_key
contains_key_always(map, k) == TRUE

contains_key(map, k) == k \in DOMAIN map

\* BTreeMap::get, BTreeMap::insert's and BTreeMap::remove's return value:
\* the value stored under k, if any.
MapGet(map, k) == IF k \in DOMAIN map THEN map[k] ELSE None

\* BTreeMap::remove
MapRemove(map, k) == [j \in DOMAIN map \ {k} |-> map[j]]

\* BTreeMap::insert
MapInsertKeep(map, k, v) ==
    [j \in DOMAIN map \cup {k} |-> IF j \in DOMAIN map THEN map[j] ELSE v]

MapInsert(map, k, v) ==
    [j \in DOMAIN map \cup {k} |-> IF j = k THEN v ELSE map[j]]

\* Vec::remove(pos), pos from 1
VecRemoveNone(s, pos) == s

VecRemove(s, pos) == SubSeq(s, 1, pos - 1) \o SubSeq(s, pos + 1, Len(s))

\* `self.keys.len() == self.capacity`
AtCapacityNever(ks, cap) == FALSE

AtCapacity(ks, cap) == Len(ks) = cap

\* The place in `keys` of the key insert evicts: self.keys.first(),
\* self.keys.remove(0).
NewestPos(ks) == Len(ks)

OldestPos(ks) == 1

\* RingBufferCache::new(cap); new(0) panics and makes no cache.
New ==
    /\ capacity = 0
    /\ \E cap \in 1..MaxCapacity : capacity' = cap
    /\ storage' = <<>>
    /\ keys' = <<>>
    /\ hits' = 0
    /\ misses' = 0
    /\ gets' = 0
    /\ last_call' = [name |-> "new", key |-> 0, value |-> None,
                    ret |-> None]
    /\ UNCHANGED <<born, clock>>
    /\ UNCHANGED outsideRing

\* RingBufferCache::get
Get ==
    /\ capacity > 0
    /\ \E key \in RowKeys :
          /\ IF contains_key(storage, key)
             THEN /\ hits < MaxStat
                  /\ hits' = hits + 1
                  /\ UNCHANGED misses
                  /\ last_call' = [name |-> "get", key |-> key, value |-> None,
                                   ret |-> MapGet(storage, key)]
             ELSE /\ misses < MaxStat
                  /\ misses' = misses + 1
                  /\ UNCHANGED hits
                  /\ last_call' = [name |-> "get", key |-> key, value |-> None,
                                   ret |-> None]
    /\ gets' = gets + 1
    /\ UNCHANGED <<storage, capacity, keys, born, clock>>
    /\ UNCHANGED outsideRing

\* RingBufferCache::insert
Insert ==
    /\ capacity > 0
    /\ \E key \in RowKeys, value \in CacheValues :
          LET is_new_key == ~contains_key(storage, key)
              evicts == is_new_key /\ AtCapacity(keys, capacity) /\ keys # <<>>
              pos == OldestPos(keys)
              kept == IF evicts THEN MapRemove(storage, keys[pos]) ELSE storage
              tracked == IF evicts THEN VecRemove(keys, pos) ELSE keys
          IN /\ is_new_key => clock < MaxInserts
             /\ keys' = IF is_new_key THEN Append(tracked, key) ELSE keys
             /\ storage' = MapInsert(kept, key, value)
             /\ clock' = IF is_new_key THEN clock + 1 ELSE clock
             /\ born' = IF is_new_key
                        THEN [j \in DOMAIN storage' |->
                                 IF j = key THEN clock + 1 ELSE born[j]]
                        ELSE born
             /\ last_call' = [name |-> "insert", key |-> key, value |-> value,
                              ret |-> MapGet(kept, key)]
    /\ UNCHANGED <<capacity, hits, misses, gets>>
    /\ UNCHANGED outsideRing

\* RingBufferCache::clear
Clear ==
    /\ capacity > 0
    /\ storage' = <<>>
    /\ keys' = <<>>
    /\ hits' = 0
    /\ misses' = 0
    /\ born' = <<>>
    /\ gets' = 0
    /\ last_call' = [name |-> "clear", key |-> 0, value |-> None,
                    ret |-> None]
    /\ UNCHANGED <<capacity, clock>>
    /\ UNCHANGED outsideRing

\* RingBufferCache::invalidate_all: `self.clear()`
InvalidateAll ==
    /\ capacity > 0
    /\ storage' = <<>>
    /\ keys' = <<>>
    /\ hits' = 0
    /\ misses' = 0
    /\ born' = <<>>
    /\ gets' = 0
    /\ last_call' = [name |-> "invalidate_all", key |-> 0, value |-> None,
                    ret |-> None]
    /\ UNCHANGED <<capacity, clock>>
    /\ UNCHANGED outsideRing

\* RingBufferCache::invalidate
Invalidate ==
    /\ capacity > 0
    /\ \E key \in RowKeys :
          LET at == {p \in 1..Len(keys) : keys[p] = key}
          IN /\ keys' = IF at = {} THEN keys
                        ELSE VecRemove(keys, CHOOSE p \in at :
                                                 \A q \in at : p <= q)
             /\ storage' = MapRemove(storage, key)
             /\ born' = [j \in DOMAIN storage' |-> born[j]]
             /\ last_call' = [name |-> "invalidate", key |-> key, value |-> None,
                              ret |-> MapGet(storage, key)]
    /\ UNCHANGED <<capacity, hits, misses, clock, gets>>
    /\ UNCHANGED outsideRing

\* RingBufferCache::reset_stats
ResetStats ==
    /\ capacity > 0
    /\ hits' = 0
    /\ misses' = 0
    /\ gets' = 0
    /\ last_call' = [name |-> "reset_stats", key |-> 0, value |-> None,
                    ret |-> None]
    /\ UNCHANGED <<storage, capacity, keys, born, clock>>
    /\ UNCHANGED outsideRing

\* No cache yet.
InitRing ==
    /\ disk = <<>>
    /\ SYSTEM_FONTS = EmptyCell
    /\ FALLBACK_CACHE = EmptyCell
    /\ mutex = 0
    /\ pc = [t \in Threads |-> "idle"]
    /\ op = [t \in Threads |-> "none"]
    /\ ch = [t \in Threads |-> "none"]
    /\ idx = [t \in Threads |-> 0]
    /\ loaded = [t \in Threads |-> FALSE]
    /\ result = [t \in Threads |-> None]
    /\ servable = [t \in Threads |-> FALSE]
    /\ scans = 0
    /\ cacheInits = 0
    /\ returned = {}
    /\ emoji = FALSE
    /\ OthersIdle

NextRing ==
    \/ New
    \/ Get
    \/ Insert
    \/ Clear
    \/ InvalidateAll
    \/ Invalidate
    \/ ResetStats

SpecRing == InitRing /\ [][NextRing]_vars

\* RingBufferCache::len
len == Cardinality(DOMAIN storage)

\* The step is insert(key, _) for a key that is not in the cache.
InsertsNewKey ==
    /\ last_call'.name = "insert"
    /\ last_call'.key \notin DOMAIN storage
    /\ <<storage, keys, clock>> # <<storage', keys', clock'>>

\* The key present that was inserted before all others present.
EarliestInserted ==
    CHOOSE k \in DOMAIN storage : \A j \in DOMAIN storage : born[k] <= born[j]

\* C19: insert of a key that is not in the cache, when the cache holds
\* capacity entries, removes exactly the entry whose key was inserted earliest
\* among those present and then stores the new entry; with fewer than capacity
\* entries nothing is evicted.
C19_EvictsEarliest ==
    [][InsertsNewKey =>
          LET key == last_call'.key
              before == IF len = capacity
                        THEN DOMAIN storage \ {EarliestInserted}
                        ELSE DOMAIN storage
          IN /\ DOMAIN storage' = before \cup {key}
             /\ \A j \in before : storage'[j] = storage[j]]_vars

C19_Witness ==
    /\ last_call.name = "insert"
    /\ capacity = 2
    /\ keys = <<0, 2>>
    /\ storage[0] = 10
    /\ born[0] = 3
    /\ born[2] = 4

\* C20: after any sequence of insert, get, invalidate, invalidate_all, clear
\* and reset_stats, len() <= capacity() and capacity() is the value passed
\* to new().
C20_LenWithinCapacity ==
    /\ [](capacity > 0 => len <= capacity)
    /\ [][capacity > 0 => capacity' = capacity]_vars

C20_Witness ==
    /\ last_call.name = "reset_stats"
    /\ capacity = 1
    /\ len = 1
    /\ clock = 3

\* C21: insert of a key already present replaces its value, returns the
\* previous value, leaves len() unchanged, evicts nothing even at capacity,
\* and leaves the key where it was in the eviction order.
C21_UpdateInPlace ==
    [][(last_call'.name = "insert" /\ last_call'.key \in DOMAIN storage) =>
          LET key == last_call'.key
          IN /\ last_call'.ret = storage[key]
             /\ DOMAIN storage' = DOMAIN storage
             /\ storage'[key] = last_call'.value
             /\ \A j \in DOMAIN storage \ {key} : storage'[j] = storage[j]
             /\ keys' = keys
             /\ born' = born]_vars

C21_Witness ==
    /\ last_call.name = "insert"
    /\ last_call.ret = 10
    /\ last_call.value = 20
    /\ capacity = 2
    /\ len = 2
    /\ keys[1] = last_call.key
    /\ storage[last_call.key] = 20

\* `keys` without the key k.
Without(ks, k) == SelectSeq(ks, LAMBDA j : j # k)

\* C22: invalidate(key) removes the entry and returns its value, or returns
\* None and changes nothing when the key is absent; the removed key leaves
\* the eviction order too, so the insert of a new key that follows evicts
\* nothing, and the keys tracked for eviction are always the keys present,
\* oldest first.
C22_InvalidateRemoves ==
    /\ [][last_call'.name = "invalidate" =>
             LET key == last_call'.key
             IN IF key \in DOMAIN storage
                THEN /\ last_call'.ret = storage[key]
                     /\ DOMAIN storage' = DOMAIN storage \ {key}
                     /\ \A j \in DOMAIN storage' : storage'[j] = storage[j]
                     /\ keys' = Without(keys, key)
                ELSE /\ last_call'.ret = None
                     /\ UNCHANGED <<storage, capacity, keys, hits, misses>>]_vars
    /\ [][(/\ last_call.name = "invalidate"
           /\ last_call.ret # None
           /\ last_call'.name = "insert"
           /\ last_call'.key \notin DOMAIN storage) =>
             DOMAIN storage' = DOMAIN storage \cup {last_call'.key}]_vars
    /\ [](/\ Len(keys) = len
          /\ \A p \in 1..Len(keys) : keys[p] \in DOMAIN storage
          /\ \A p, q \in 1..Len(keys) : p < q => born[keys[p]] < born[keys[q]])

C22_Witness ==
    /\ last_call.name = "insert"
    /\ last_call.ret = None
    /\ capacity = 2
    /\ keys = <<1, 2>>
    /\ born[1] = 2
    /\ born[2] = 4

\* C23: get(key) returns the stored value and adds one to the hit counter
\* when the key is present, returns None and adds one to the miss counter
\* otherwise; insert, eviction and invalidate leave the counters alone, so
\* hits + misses is the number of get calls since the cache was made or last
\* cleared (clear, or invalidate_all which calls it) or reset_stats was called.
C23_CountersCountGets ==
    /\ [][last_call'.name = "get" =>
             LET key == last_call'.key
             IN IF key \in DOMAIN storage
                THEN /\ last_call'.ret = storage[key]
                     /\ hits' = hits + 1
                     /\ misses' = misses
                ELSE /\ last_call'.ret = None
                     /\ misses' = misses + 1
                     /\ hits' = hits]_vars
    /\ [][last_call'.name \in {"insert", "invalidate"} =>
             hits' = hits /\ misses' = misses]_vars
    /\ [](hits + misses = gets)

C23_Witness ==
    /\ last_call.name = "get"
    /\ last_call.ret = None
    /\ last_call.key = 0
    /\ hits = 1
    /\ misses = 1
    /\ clock = 3
    /\ capacity = 2

(***************************************************************************)
(* MessageBuilder::show, from `let deadline = ...` on.  A cursor position  *)
(* is the place in `buttons` of the button it is over, 0 when over none.   *)
(* The redraws and the dragging of the window change nothing show returns  *)
(* and are left out.                                                       *)
(***************************************************************************)
\* The labels of show: `labels`, before labels.reverse().
ShowLabels(preset, extra_buttons, switch) ==
    IF switch THEN extra_buttons ELSE PresetLabels(preset) \o extra_buttons

\* Button::new
ButtonNew(label) ==
    [label |-> label, hovered |-> FALSE, pressed |-> FALSE, clicked |-> FALSE]

\* The events a window with n buttons gets.
WindowEvents(n) ==
    {[type |-> t, pos |-> 0] :
        t \in {"CloseRequested", "RedrawRequested", "KeyEscape", "KeyReturn",
               "CursorLeave", "ButtonPress", "ButtonRelease"}}
        \cup {[type |-> "CursorMove", pos |-> p] : p \in 0..n}

\* `if self.pressed && self.hovered { self.clicked = true; }`
RegistersUnhovered(b) == b.pressed

Registers(b) == b.pressed /\ b.hovered

\* Button::process_event of the button at place i, as to the button's state.
\* ButtonPress and ButtonRelease are those of MouseButton::Left.
process_event(b, e, i) ==
    IF e.type \in {"CursorMove", "CursorEnter"}
    THEN [b EXCEPT !.hovered = (e.pos = i)]
    ELSE IF e.type = "CursorLeave"
    THEN [b EXCEPT !.hovered = FALSE, !.pressed = FALSE]
    ELSE IF e.type = "ButtonPress" /\ b.hovered THEN [b EXCEPT !.pressed = TRUE]
    ELSE IF e.type = "ButtonRelease"
    THEN [b EXCEPT !.clicked = b.clicked \/ Registers(b),
                   !.pressed = FALSE]
    ELSE b

\* `Instant::now() >= deadline`, for a deadline that is Some
ExpiredAlways(dl, t) == dl # {}

Expired(dl, t) == \E d \in dl : t >= d

\* show returns r.
ShowReturns(r) ==
    /\ shown' = r
    /\ wpc' = "returned"

\* original_index[i] for the button at place i (from 1) of num_labels:
\* `(0..num_labels).rev().collect()`.
ButtonIndexSame(num_labels, i) == i - 1

ButtonIndex(num_labels, i) == num_labels - i

\* `for (i, button) in buttons.iter_mut().enumerate()`: each button takes the
\* event, and the first one that was clicked ends show; otherwise show goes
\* on at `next`.
ButtonsTake(e, next) ==
    LET took == [i \in 1..Len(widgets) |-> process_event(widgets[i], e, i)]
        clicked == {i \in 1..Len(widgets) : took[i].clicked}
        first == CHOOSE i \in clicked : \A j \in clicked : i <= j
    IN IF clicked # {}
       THEN /\ widgets' = [i \in 1..Len(widgets) |->
                             IF i < first THEN took[i]
                             ELSE IF i = first
                             THEN [took[i] EXCEPT !.clicked = FALSE]
                             ELSE widgets[i]]
            /\ ShowReturns(Button(ButtonIndex(Len(widgets), first)))
       ELSE /\ widgets' = took
            /\ wpc' = next
            /\ UNCHANGED shown

\* `if let Some(deadline) = deadline { if Instant::now() >= deadline ... } }`
CheckTimeout ==
    /\ wpc = "check"
    /\ IF Expired(deadline, now)
       THEN ShowReturns(Timeout)
       ELSE wpc' = "get" /\ UNCHANGED shown
    /\ UNCHANGED <<timeout, deadline, now, events, event, widgets, posted>>
    /\ UNCHANGED outsideShow

\* `let event = ...`: poll_for_event when a deadline is set, wait_for_event,
\* which waits for an event, when none is.
GetEvent ==
    /\ wpc = "get"
    /\ IF events # <<>>
       THEN /\ event' = Head(events)
            /\ events' = Tail(events)
            /\ wpc' = "handle"
       ELSE /\ deadline # {}
            /\ wpc' = "sleep"
            /\ UNCHANGED <<event, events>>
    /\ UNCHANGED <<timeout, deadline, now, widgets, shown, posted>>
    /\ UNCHANGED outsideShow

\* `std::thread::sleep(Duration::from_millis(50)); continue;`
Sleep ==
    /\ wpc = "sleep"
    /\ wpc' = "check"
    /\ UNCHANGED <<timeout, deadline, now, events, event, widgets, shown,
                   posted>>
    /\ UNCHANGED outsideShow

\* `match &event` and the buttons after it.
HandleEvent ==
    /\ wpc = "handle"
    /\ IF event.type \in {"CloseRequested", "KeyEscape"}
       THEN ShowReturns(Closed) /\ UNCHANGED widgets
       ELSE IF event.type = "KeyReturn" /\ widgets # <<>>
       THEN ShowReturns(Button(0)) /\ UNCHANGED widgets
       ELSE ButtonsTake(event, "batch")
    /\ UNCHANGED <<timeout, deadline, now, events, event, posted>>
    /\ UNCHANGED outsideShow

\* One turn of `while let Some(event) = window.poll_for_event()?`, or its end.
BatchEvent ==
    /\ wpc = "batch"
    /\ IF events = <<>>
       THEN /\ wpc' = "check"
            /\ UNCHANGED <<events, widgets, shown>>
       ELSE /\ events' = Tail(events)
            /\ IF Head(events).type = "CloseRequested"
               THEN ShowReturns(Closed) /\ UNCHANGED widgets
               ELSE ButtonsTake(Head(events), "batch")
    /\ UNCHANGED <<timeout, deadline, now, event, posted>>
    /\ UNCHANGED outsideShow

\* A `?` of the loop fails: poll_for_event, wait_for_event or set_contents.
WindowFails ==
    /\ wpc \in {"get", "handle", "batch"}
    /\ ShowReturns([tag |-> "Err", n |-> 0])
    /\ UNCHANGED <<timeout, deadline, now, events, event, widgets, posted>>
    /\ UNCHANGED outsideShow

\* The window gets an event.
Post ==
    /\ wpc \notin {"idle", "returned"}
    /\ posted < MaxEvents
    /\ posted' = posted + 1
    /\ \E e \in WindowEvents(Len(widgets)) : events' = Append(events, e)
    /\ UNCHANGED <<wpc, timeout, deadline, now, event, widgets, shown>>
    /\ UNCHANGED outsideShow

\* A second passes.
Tick ==
    /\ wpc \notin {"idle", "returned"}
    /\ now <= MaxSecs
    /\ now' = now + 1
    /\ UNCHANGED <<wpc, timeout, deadline, events, event, widgets, shown,
                   posted>>
    /\ UNCHANGED outsideShow

\* show has made its buttons and its deadline and enters the loop.
InitShow ==
    /\ disk = <<>>
    /\ SYSTEM_FONTS = EmptyCell
    /\ FALLBACK_CACHE = EmptyCell
    /\ mutex = 0
    /\ pc = [t \in Threads |-> "idle"]
    /\ op = [t \in Threads |-> "none"]
    /\ ch = [t \in Threads |-> "none"]
    /\ idx = [t \in Threads |-> 0]
    /\ loaded = [t \in Threads |-> FALSE]
    /\ result = [t \in Threads |-> None]
    /\ servable = [t \in Threads |-> FALSE]
    /\ scans = 0
    /\ cacheInits = 0
    /\ returned = {}
    /\ emoji = FALSE
    /\ LayoutIdle /\ FontsIdle /\ DialogIdle /\ RingIdle /\ CanvasIdle
    /\ WidgetsIdle
    /\ wpc = "check"
    /\ timeout \in {{}} \cup {{secs} : secs \in 0..MaxSecs}
    /\ now = 0
    /\ deadline = {now + secs : secs \in timeout}
    /\ events = <<>>
    /\ event = [type |-> "none", pos |-> 0]
    /\ \E preset \in {"Ok", "YesNo", "Empty"},
          extra_buttons \in {<<>>, <<"Extra">>}, switch \in BOOLEAN :
          LET labels == Reverse(ShowLabels(preset, extra_buttons, switch))
          IN widgets = [i \in 1..Len(labels) |-> ButtonNew(labels[i])]
    /\ shown = [tag |-> "none", n |-> 0]
    /\ posted = 0

LoopStep ==
    \/ CheckTimeout
    \/ GetEvent
    \/ Sleep
    \/ HandleEvent
    \/ BatchEvent

NextShow ==
    \/ LoopStep
    \/ WindowFails
    \/ Post
    \/ Tick

SpecShow == InitShow /\ [][NextShow]_vars

\* The loop goes on while it can, and time passes.
SpecShowFair == SpecShow /\ WF_vars(LoopStep) /\ WF_vars(Tick)

\* C24: with a timeout set, show returns in the end, with Timeout if nothing
\* else (click, key press, close request, or a failure of the window) ended
\* it first; it returns Timeout only when a timeout was set and its seconds
\* have passed.
C24_TimeoutAtDeadline ==
    /\ (timeout # {}) ~> (wpc = "returned")
    /\ [](shown.tag = "Timeout" => \E secs \in timeout : now >= secs)
    /\ [][(wpc = "check" /\ \E secs \in timeout : now >= secs) =>
             (wpc' = "returned" => shown' = Timeout)]_vars

C24_Witness ==
    /\ shown = Timeout
    /\ timeout = {1}
    /\ now = 1
    /\ posted = MaxEvents
    /\ events = <<>>

\* The step pushes a visible glyph with x beyond max_width while a break
\* opportunity is recorded.
WrapDue ==
    /\ CharLaidOut
    /\ Len(glyphs') = Len(glyphs) + 1
    /\ lpc = "chars"
    /\ last_softbreak # None
    /\ AdvancedWith(KernAllowed) > max_width

\* C25: when a visible glyph is pushed with x greater than max_width and a
\* break opportunity i is recorded, y grows by one line height, every glyph
\* from i on is moved left by the x glyph i had (glyph i lands at x = 0) and
\* put at the new y, the running x is reduced by the same amount, and the
\* glyphs before i are left as they were.
C25_WrapMovesRun ==
    [][WrapDue =>
          LET i == last_softbreak
              n == Len(glyphs')
              placed_x == Round(x + KernAllowed)
              before(k) == IF k <= Len(glyphs) THEN glyphs[k].x ELSE placed_x
              x_diff == before(i)
          IN /\ y' = y + LineHeight
             /\ glyphs'[i].x = 0
             /\ \A k \in 1..n :
                   IF k >= i
                   THEN /\ glyphs'[k].x = before(k) - x_diff
                        /\ glyphs'[k].y = y'
                   ELSE glyphs'[k] = glyphs[k]
             /\ x' = AdvancedWith(KernAllowed) - x_diff]_vars

C25_Witness ==
    /\ Len(glyphs) = 3
    /\ max_width = 7 * Sub
    /\ glyphs[1].y = 0
    /\ glyphs[1].x = 0
    /\ glyphs[2].y = LineHeight
    /\ glyphs[2].x = 0
    /\ glyphs[3].y = LineHeight
    /\ glyphs[3].x = 2 * Sub
    /\ y = LineHeight
    /\ last_softbreak = None

\* C26: a wrap clears the break opportunity, and only a space or a zero-width
\* space records one, so a line wraps again only after another of them; with
\* none recorded a glyph pushed beyond max_width stays on its line, after the
\* glyph before it.
C26_OneWrapPerBreak ==
    [][CharLaidOut =>
          /\ y' # y => last_softbreak # None /\ last_softbreak' = None
          /\ (last_softbreak' # None /\ last_softbreak' # last_softbreak) =>
                SoftBreakChar(text'[Len(text')])
          /\ (/\ lpc = "chars"
              /\ last_softbreak = None
              /\ Len(glyphs') = Len(glyphs) + 1) =>
                /\ y' = y
                /\ SubSeq(glyphs', 1, Len(glyphs)) = glyphs
                /\ glyphs'[Len(glyphs')].x = Round(x + KernAllowed)
                /\ glyphs'[Len(glyphs')].y = Round(y)
                /\ x' = AdvancedWith(KernAllowed)]_vars

C26_Witness ==
    /\ max_width = 5 * Sub
    /\ text = <<" ", "a", "a", "a">>
    /\ Len(glyphs) = 3
    /\ glyphs[1].y = LineHeight
    /\ glyphs[2].y = LineHeight
    /\ glyphs[3].y = Round(LineHeight)
    /\ glyphs[3].x > glyphs[2].x
    /\ x > max_width
    /\ last_softbreak = None

\* C27: every glyph layout returns is placed on whole pixels: its x and its y
\* are integers, whether it was placed directly or moved by a wrap.
C27_WholePixels ==
    \A g \in 1..Len(glyphs) :
        glyphs[g].x % Sub = 0 /\ glyphs[g].y % Sub = 0

\* C28: the canvas of finish is ceil(bounds width) + 2 by ceil(bounds
\* height) + 2 pixels, and with the drawing offset -floor(bounds.min) + 1 on
\* each axis every pixel of every outlined glyph's pixel bounds and every
\* pixel of every raster glyph lies on the canvas: none is clipped.
C28_NothingClipped ==
    (lpc = "done" /\ out.op = "finish" /\ resolve_glyphs(glyphs) # <<>>) =>
        LET bounds == UnionBounds(resolve_glyphs(glyphs))
            drawn == Drawn(glyphs)
        IN /\ out.w = Ceil(bounds.maxx - bounds.minx) \div Sub + 2
           /\ out.h = Ceil(bounds.maxy - bounds.miny) \div Sub + 2
           /\ \A k \in 1..Len(drawn) :
                 /\ 0 <= drawn[k].x0 /\ drawn[k].x0 < drawn[k].x1
                 /\ drawn[k].x1 <= out.w
                 /\ 0 <= drawn[k].y0 /\ drawn[k].y0 < drawn[k].y1
                 /\ drawn[k].y1 <= out.h

C28_Witness ==
    /\ lpc = "done"
    /\ out.op = "finish"
    /\ Len(resolve_glyphs(glyphs)) = 3
    /\ \E j, k \in 1..3 :
          /\ resolve_glyphs(glyphs)[j].kind = "Raster"
          /\ resolve_glyphs(glyphs)[k].kind = "Outlined"
          /\ Drawn(glyphs)[j].x1 = out.w - 1
          /\ Drawn(glyphs)[k].x0 = 1
    /\ \E g \in 1..Len(glyphs) : glyphs[g].y % Sub # 0

(***************************************************************************)
(* The compositing of finish, at one pixel of its pixmap.  Pixmap::new     *)
(* makes the pixel transparent; each glyph that covers the pixel draws to  *)
(* it, an outlined glyph with a coverage, a raster glyph with a pixel of   *)
(* its scaled bitmap.  Pixels are premultiplied RGBA, 8 bits a channel.    *)
(***************************************************************************)
\* `(c * 255.0).round() as u8` of the coverages met.
Alphas == {0, 1, 127, 128, 254, 255}

\* Text colours.
TextColors ==
    {[r |-> 255, g |-> 255, b |-> 255], [r |-> 200, g |-> 100, b |-> 1]}

\* Pixels of a scaled bitmap: transparent, or opaque.
RasterPixels ==
    {[r |-> 0, g |-> 0, b |-> 0, a |-> 0],
     [r |-> 255, g |-> 0, b |-> 0, a |-> 255],
     [r |-> 20, g |-> 200, b |-> 90, a |-> 255]}

Transparent == [r |-> 0, g |-> 0, b |-> 0, a |-> 0]

\* `(self.color.r as u32 * a as u32 / 255) as u8`
PremultiplyNone(channel, a) == channel

Premultiply(channel, a) == ((channel * a) \div 255) % 256

\* `(r as u32 + er * inv_a / 255).min(255) as u8`
SourceOver(src, existing, a) ==
    LET inv_a == 255 - a
        sum == src + (existing * inv_a) \div 255
    IN IF sum < 255 THEN sum ELSE 255

\* PremultipliedColorU8::from_rgba is Some: no colour channel exceeds alpha.
IsPremultiplied(p) == p.r <= p.a /\ p.g <= p.a /\ p.b <= p.a

\* The pixel the closure of og.draw would write for coverage alpha a.
Blend(a, existing) ==
    LET r == Premultiply(color.r, a)
        g == Premultiply(color.g, a)
        b == Premultiply(color.b, a)
    IN IF existing.a = 0
       THEN [r |-> r, g |-> g, b |-> b, a |-> a]
       ELSE [r |-> SourceOver(r, existing.r, a),
             g |-> SourceOver(g, existing.g, a),
             b |-> SourceOver(b, existing.b, a),
             a |-> SourceOver(a, existing.a, a)]

\* draw_pixmap with PixmapPaint::default(), whose blend mode is source-over,
\* for a source pixel that is opaque or transparent.
draw_pixmap(src, existing) == IF src.a = 255 THEN src ELSE existing

\* The closure of og.draw, at the pixel.
DrawOutlined ==
    /\ color # [r |-> 0, g |-> 0, b |-> 0]
    /\ ~panicked
    /\ ndraws < MaxDraws
    /\ ndraws' = ndraws + 1
    /\ \E a \in Alphas :
          /\ last_draw' = [kind |-> "outlined", a |-> a, src |-> Transparent,
                           existing |-> pix]
          /\ IF a > 0
             THEN IF IsPremultiplied(Blend(a, pix))
                  THEN pix' = Blend(a, pix) /\ UNCHANGED panicked
                  ELSE panicked' = TRUE /\ UNCHANGED pix
             ELSE UNCHANGED <<pix, panicked>>
    /\ UNCHANGED color
    /\ UNCHANGED outsideCanvas

\* pixmap.draw_pixmap(dx, dy, src, ..), at the pixel.
DrawRaster ==
    /\ color # [r |-> 0, g |-> 0, b |-> 0]
    /\ ~panicked
    /\ ndraws < MaxDraws
    /\ ndraws' = ndraws + 1
    /\ \E src \in RasterPixels :
          /\ last_draw' = [kind |-> "raster", a |-> 0, src |-> src,
                           existing |-> pix]
          /\ pix' = draw_pixmap(src, pix)
    /\ UNCHANGED <<color, panicked>>
    /\ UNCHANGED outsideCanvas

\* finish has made its pixmap.
InitCanvas ==
    /\ disk = <<>>
    /\ SYSTEM_FONTS = EmptyCell
    /\ FALLBACK_CACHE = EmptyCell
    /\ mutex = 0
    /\ pc = [t \in Threads |-> "idle"]
    /\ op = [t \in Threads |-> "none"]
    /\ ch = [t \in Threads |-> "none"]
    /\ idx = [t \in Threads |-> 0]
    /\ loaded = [t \in Threads |-> FALSE]
    /\ result = [t \in Threads |-> None]
    /\ servable = [t \in Threads |-> FALSE]
    /\ scans = 0
    /\ cacheInits = 0
    /\ returned = {}
    /\ emoji = FALSE
    /\ LayoutIdle /\ FontsIdle /\ DialogIdle /\ RingIdle /\ ShowIdle
    /\ WidgetsIdle
    /\ pix = Transparent
    /\ color \in TextColors
    /\ last_draw = [kind |-> "none", a |-> 0, src |-> Transparent,
                    existing |-> Transparent]
    /\ ndraws = 0
    /\ panicked = FALSE

NextCanvas ==
    \/ DrawOutlined
    \/ DrawRaster

SpecCanvas == InitCanvas /\ [][NextCanvas]_vars

\* The claim's premultiplied source and its blend of one channel.
ClaimedSource(channel, a) == (channel * a) \div 255

ClaimedBlend(src, dst, a) ==
    LET sum == src + (dst * (255 - a)) \div 255
    IN IF sum < 255 THEN sum ELSE 255

\* C29: an outlined glyph's pixel of 8-bit alpha a > 0 has as source the text
\* colour premultiplied by a (channel * a / 255); over a destination of
\* alpha 0 the source is written, otherwise every channel, alpha too, becomes
\* min(255, src + dst * (255 - a) / 255); the two ways agree on a fully
\* transparent destination; a = 0 leaves the destination as it was.  (And no
\* unwrap of a pixel fails.)
C29_PremultipliedBlend ==
    /\ [](~panicked /\ IsPremultiplied(pix))
    /\ [][last_draw'.kind = "outlined" =>
             LET a == last_draw'.a
                 dst == pix
                 src == [r |-> ClaimedSource(color.r, a),
                         g |-> ClaimedSource(color.g, a),
                         b |-> ClaimedSource(color.b, a), a |-> a]
                 blended == [r |-> ClaimedBlend(src.r, dst.r, a),
                             g |-> ClaimedBlend(src.g, dst.g, a),
                             b |-> ClaimedBlend(src.b, dst.b, a),
                             a |-> ClaimedBlend(src.a, dst.a, a)]
             IN IF a = 0 THEN pix' = pix
                ELSE /\ dst.a = 0 => pix' = src /\ blended = src
                     /\ dst.a # 0 => pix' = blended]_vars

C29_Witness ==
    /\ last_draw.kind = "outlined"
    /\ last_draw.a = 127
    /\ last_draw.existing.a = 128
    /\ color.g = 100
    /\ pix.a = 191
    /\ pix.g = 49 + (50 * 128) \div 255
    /\ ndraws = 2

\* C30: a raster glyph is composited by overwrite: once it is drawn, the
\* pixel of the canvas is the pixel of the scaled bitmap, whatever the canvas
\* held there before.
C30_RasterOverwrites ==
    [][last_draw'.kind = "raster" => pix' = last_draw'.src]_vars

(***************************************************************************)
(* Claims about the empty text, the fallback lock, the button widget and   *)
(* the calendar.                                                           *)
(***************************************************************************)

\* C31: the union of the glyphs' bounds is never computed over an empty
\* sequence of glyphs: a call of finish or of measure whose text resolves to
\* no glyph returns before the reduction. Checked under SpecLayout. measure
\* has no such return: it reduces the empty sequence and takes the default
\* rectangle.
C31_NoEmptyReduction ==
    (lpc = "done" /\ resolve_glyphs(glyphs) = <<>>) => ~out.reduced

\* finish does return early for the empty text.
C31_FinishGuarded ==
    (lpc = "done" /\ out.op = "finish" /\ resolve_glyphs(glyphs) = <<>>) =>
        ~out.reduced

Taken == IF wpc = "handle" THEN event ELSE Head(events)

\* The step gives the buttons a release of the mouse button while the button
\* at place i of `buttons` is pressed and under the cursor.
ClickOn(i) ==
    /\ \/ wpc = "handle" /\ HandleEvent
       \/ wpc = "batch" /\ events # <<>> /\ BatchEvent
    /\ Taken.type = "ButtonRelease"
    /\ widgets[i].pressed
    /\ widgets[i].hovered

\* C34: a click on the button whose label is at place k (from 0) of the
\* labels as given (the preset's labels and then the extra buttons, or the
\* extra buttons alone with switch) makes show return Button(k), in the
\* main turn of the loop and in the batch alike, whatever the order the
\* buttons are kept in. Checked under SpecShow.
C34_ClickReturnsLabelIndex ==
    [][\A i \in 1..Len(widgets) :
          ClickOn(i) =>
              /\ wpc' = "returned"
              /\ shown'.tag = "Button"
              /\ \A preset \in {"Ok", "YesNo", "Empty"},
                    extra_buttons \in {<<>>, <<"Extra">>}, switch \in BOOLEAN :
                    LET labels == ShowLabels(preset, extra_buttons, switch)
                    IN Len(labels) = Len(widgets)
                           /\ (\A j \in 1..Len(labels) :
                                  Reverse(labels)[j] = widgets[j].label)
                       => labels[shown'.n + 1] = widgets[i].label]_vars

\* C34 witness: with Yes, No and an extra button, a click on Yes, kept last,
\* has returned Button(0) from the batch.
C34_Witness ==
    /\ wpc = "returned"
    /\ shown = Button(0)
    /\ Len(widgets) = 3
    /\ widgets[3].label = "Yes"
    /\ widgets[3].hovered
    /\ event.type = "ButtonPress"
    /\ posted = MaxEvents

(***************************************************************************)
(* One Button, given events and asked was_clicked in any order.  The       *)
(* cursor is over the button (1) or not (0).                               *)
(***************************************************************************)
MaxClicks == 2

\* The events a button is given: those of WindowEvents, the cursor entering
\* the window, and the other mouse buttons.
ButtonEvents ==
    WindowEvents(1)
        \cup {[type |-> "CursorEnter", pos |-> p] : p \in 0..1}
        \cup {[type |-> t, pos |-> 0] :
                 t \in {"ButtonPressRight", "ButtonReleaseRight"}}

\* Nothing but the button has begun.
NoOthers ==
    /\ disk = <<>>
    /\ SYSTEM_FONTS = EmptyCell
    /\ FALLBACK_CACHE = EmptyCell
    /\ mutex = 0
    /\ pc = [t \in Threads |-> "idle"]
    /\ op = [t \in Threads |-> "none"]
    /\ ch = [t \in Threads |-> "none"]
    /\ idx = [t \in Threads |-> 0]
    /\ loaded = [t \in Threads |-> FALSE]
    /\ result = [t \in Threads |-> None]
    /\ servable = [t \in Threads |-> FALSE]
    /\ scans = 0
    /\ cacheInits = 0
    /\ returned = {}
    /\ emoji = FALSE
    /\ LayoutIdle /\ FontsIdle /\ DialogIdle /\ RingIdle /\ ShowIdle
    /\ CanvasIdle

\* Button::new
InitButton ==
    /\ NoOthers
    /\ CalendarIdle
    /\ btn = ButtonNew("OK")
    /\ bcall = "new"
    /\ btn_event = [type |-> "none", pos |-> 0]
    /\ was = {}
    /\ registered = 0

\* button.process_event(&event)
ProcessEvent ==
    /\ \E e \in ButtonEvents :
          /\ btn_event' = e
          /\ btn' = process_event(btn, e, 1)
          /\ registered' =
                 IF e.type = "ButtonRelease" /\ Registers(btn)
                 THEN registered + 1 ELSE registered
    /\ registered' <= MaxClicks
    /\ bcall' = "process_event"
    /\ UNCHANGED was
    /\ UNCHANGED outsideButton

\* button.was_clicked()
WasClicked ==
    /\ was' = {btn.clicked}
    /\ btn' = [btn EXCEPT !.clicked = FALSE]
    /\ registered' = 0
    /\ bcall' = "was_clicked"
    /\ UNCHANGED btn_event
    /\ UNCHANGED outsideButton

NextButton == ProcessEvent \/ WasClicked

SpecButton == InitButton /\ [][NextButton]_vars

\* C33: a click is registered exactly by a release of the left button that
\* comes while the button is pressed and hovered; pressed is set only by a
\* press of the left button that comes while hovered, and cleared by every
\* release of the left button and by CursorLeave; was_clicked returns true
\* exactly when a click was registered since it was last called, and clears
\* the flag, so that it returns false until the next click. Checked under
\* SpecButton.
C33_ClickOnce ==
    /\ [][bcall' = "process_event" =>
             LET e == btn_event'
             IN /\ btn'.clicked =
                       (btn.clicked \/ (/\ e.type = "ButtonRelease"
                                        /\ btn.pressed
                                        /\ btn.hovered))
                /\ btn'.pressed =
                       IF e.type = "ButtonPress" /\ btn.hovered THEN TRUE
                       ELSE IF e.type \in {"ButtonRelease", "CursorLeave"}
                       THEN FALSE
                       ELSE btn.pressed]_vars
    /\ [][bcall' = "was_clicked" =>
             /\ was' = {registered > 0}
             /\ ~btn'.clicked
             /\ btn'.pressed = btn.pressed
             /\ btn'.hovered = btn.hovered]_vars
    /\ [](btn.clicked <=> registered > 0)

\* C33 witness: the left button was released over the pressed button, and
\* was_clicked has returned true and cleared the flag.
C33_Witness ==
    /\ bcall = "was_clicked"
    /\ btn_event.type = "ButtonRelease"
    /\ btn.hovered
    /\ ~btn.pressed
    /\ ~btn.clicked
    /\ was = {TRUE}
    /\ registered = 0

(***************************************************************************)
(* The calendar's dates.  A u32 is written as the i32 of the same bits, so *)
(* that -1 is 4294967295, `year as i32` is the year itself, and adding or  *)
(* taking one wraps as the release build does.                             *)
(***************************************************************************)
LastYear == 2400

\* 2^32 % n
Pow32Rem(n) == ((65536 % n) * (65536 % n)) % n

\* `year % n` of a u32
U32Rem(v, n) == IF v >= 0 THEN v % n ELSE ((v % n) + Pow32Rem(n)) % n

\* `a / b` and `a % b` of i32, b positive: towards zero, the remainder with
\* the sign of a.
TruncDiv(a, b) == IF a >= 0 THEN a \div b ELSE -((-a) \div b)

TruncRem(a, b) == a - b * TruncDiv(a, b)

\* is_leap_year
is_leap_year(v) ==
    (U32Rem(v, 4) = 0 /\ U32Rem(v, 100) # 0) \/ U32Rem(v, 400) = 0

\* days_in_month
days_in_month(v, m) ==
    IF m \in {1, 3, 5, 7, 8, 10, 12} THEN 31
    ELSE IF m = 2 THEN (IF is_leap_year(v) THEN 29 ELSE 28)
    ELSE 30

\* `(h + 6) % 7` of first_day_of_month
SundayFirst(h) == TruncRem(h + 6, 7)

\* first_day_of_month
first_day_of_month(v, mon) ==
    LET m == IF mon < 3 THEN mon + 12 ELSE mon
        y0 == IF mon < 3 THEN v - 1 ELSE v
        k == TruncRem(y0, 100)
        j == TruncDiv(y0, 100)
        h == TruncRem(1 + TruncDiv(13 * (m + 1), 5) + k + TruncDiv(k, 4)
                          + TruncDiv(j, 4) - 2 * j, 7)
    IN SundayFirst(h)

\* The month after (v, m).
Following(v, m) ==
    IF m = 12 THEN [year |-> v + 1, month |-> 1]
    ELSE [year |-> v, month |-> m + 1]

\* The Gregorian calendar, carried back before its introduction: the days
\* from 1 January of year 1, a Monday, to 1 January of year v, the lengths
\* of the months, and the day of the week (0 is Sunday) of the first of month
\* m of year v.
GregorianLeap(v) == (v % 4 = 0 /\ v % 100 # 0) \/ v % 400 = 0

DaysBeforeYear(v) ==
    365 * (v - 1) + ((v - 1) \div 4) - ((v - 1) \div 100) + ((v - 1) \div 400)

GregorianMonth(v, m) ==
    IF m \in {4, 6, 9, 11} THEN 30
    ELSE IF m = 2 THEN (IF GregorianLeap(v) THEN 29 ELSE 28)
    ELSE 31

RECURSIVE DaysBeforeMonth(_, _)
DaysBeforeMonth(v, m) ==
    IF m = 1 THEN 0
    ELSE DaysBeforeMonth(v, m - 1) + GregorianMonth(v, m - 1)

GregorianFirstDay(v, m) == (1 + DaysBeforeYear(v) + DaysBeforeMonth(v, m)) % 7

(***************************************************************************)
(* draw's grid of one month: first_day_of_month and days_in_month of the   *)
(* year and month shown.                                                   *)
(***************************************************************************)
InitMonth ==
    /\ NoOthers
    /\ ButtonIdle
    /\ cpc = "draw"
    /\ year \in 0..LastYear
    /\ month \in 1..12
    /\ selected_day = 1
    /\ hovered_day = {}
    /\ mouse = 0
    /\ cal_buttons = <<>>
    /\ picked = [tag |-> "none", year |-> 0, month |-> 0, day |-> 0]
    /\ grid = [first_day |-> -1, days |-> 0]

\* `let first_day = first_day_of_month(year, month); let days_in_month = ..`
DrawGrid ==
    /\ cpc = "draw"
    /\ cpc' = "drawn"
    /\ grid' = [first_day |-> first_day_of_month(year, month),
                days |-> days_in_month(year, month)]
    /\ UNCHANGED <<year, month, selected_day, hovered_day, mouse, cal_buttons,
                   picked>>
    /\ UNCHANGED outsideCalendar

NextMonth == DrawGrid

SpecMonth == InitMonth /\ [][NextMonth]_vars

\* The grid drawn starts on the day of the week the month starts on, and
\* the month after it starts days_in_month days of the week later.
GridRight ==
    LET after == Following(year, month)
    IN /\ grid.first_day \in 0..6
       /\ grid.first_day = GregorianFirstDay(year, month)
       /\ first_day_of_month(after.year, after.month) =
              (grid.first_day + grid.days) % 7

\* C35: for every year and every month from 1 to 12, first_day_of_month is
\* in 0..6 and is the Gregorian day of the week (0 is Sunday) of the first
\* day of the month, and the first day of the month after it is
\* (first_day_of_month + days_in_month) mod 7. Checked under SpecMonth.
\* January and February of year 0 are computed from the year -1, whose
\* remainder and quotient by 100 Rust takes towards zero.
C35_FirstDayIsWeekday == cpc = "drawn" => GridRight

\* From year 1 on the grid is right, the remainders below zero included.
C35_FromYearOne == (cpc = "drawn" /\ year >= 1) => GridRight

\* The intermediate remainder h is below zero in some month.
C35_NegativeRemainder ==
    /\ cpc = "drawn"
    /\ year = 2000
    /\ month = 3
    /\ grid.first_day = 3

(***************************************************************************)
(* CalendarBuilder::show, from the loop on.  A cursor position is the      *)
(* place it is in: 1 the OK button, 2 the Cancel button, 3 the header's    *)
(* left 32 pixels, 4 its right 32 pixels, 10 + c the cell c of the grid    *)
(* (row * 7 + col), 0 anywhere else.  The redraws change nothing show      *)
(* returns and are left out.                                               *)
(***************************************************************************)
MaxYear == 1

\* u32::MAX
U32Max == -1

\* The cell of the grid the cursor is moved to: the sixth of the fifth row,
\* where the months have one of their last days.
Cells == {32}

\* The places the cursor is moved to: all but the Cancel button.
Positions == {0, 1, 3, 4} \cup {10 + c : c \in Cells}

\* The events the calendar's window gets.
CalendarEvents ==
    {[type |-> t, pos |-> 0] :
        t \in {"CloseRequested", "RedrawRequested", "ButtonPress",
               "ButtonRelease", "KeyLeft", "KeyRight", "KeyUp", "KeyDown",
               "KeyReturn", "KeyEscape"}}
        \cup {[type |-> "CursorMove", pos |-> p] : p \in Positions}

\* month.clamp(1, 12), day.clamp(1, 31)
clamp(v, lo, hi) == IF v < lo THEN lo ELSE IF v > hi THEN hi ELSE v

\* selected_day.min(..)
Min(a, b) == IF a <= b THEN a ELSE b

\* (year, month, selected_day) of show
Date == [year |-> year, month |-> month, selected_day |-> selected_day]

\* `if month == 1 { month = 12; year -= 1; } else { month -= 1; }`
MonthBefore(d) ==
    IF d.month = 1 THEN [d EXCEPT !.month = 12, !.year = d.year - 1]
    ELSE [d EXCEPT !.month = d.month - 1]

\* `if month == 12 { month = 1; year += 1; } else { month += 1; }`
MonthAfter(d) ==
    IF d.month = 12 THEN [d EXCEPT !.month = 1, !.year = d.year + 1]
    ELSE [d EXCEPT !.month = d.month + 1]

\* `year -= 1` and `year += 1` leave u32.
Underflows(d) == d.month = 1 /\ d.year = 0

Overflows(d) == d.month = 12 /\ d.year = U32Max

\* The header's arrows
ClickPrev(d) ==
    LET p == MonthBefore(d)
    IN [p EXCEPT !.selected_day =
                     Min(d.selected_day, days_in_month(p.year, p.month))]

ClickNext(d) ==
    LET n == MonthAfter(d)
    IN [n EXCEPT !.selected_day =
                     Min(d.selected_day, days_in_month(n.year, n.month))]

\* KEY_LEFT, KEY_RIGHT, KEY_UP, KEY_DOWN
KeyLeft(d) ==
    IF d.selected_day > 1 THEN [d EXCEPT !.selected_day = @ - 1]
    ELSE LET p == MonthBefore(d)
         IN [p EXCEPT !.selected_day = days_in_month(p.year, p.month)]

KeyRight(d) ==
    IF d.selected_day < days_in_month(d.year, d.month)
    THEN [d EXCEPT !.selected_day = @ + 1]
    ELSE [MonthAfter(d) EXCEPT !.selected_day = 1]

KeyUp(d) ==
    IF d.selected_day > 7 THEN [d EXCEPT !.selected_day = @ - 7]
    ELSE LET p == MonthBefore(d)
             days_prev == days_in_month(p.year, p.month)
         IN [p EXCEPT !.selected_day = days_prev - (7 - d.selected_day)]

KeyDown(d) ==
    LET days_in == days_in_month(d.year, d.month)
    IN IF d.selected_day + 7 <= days_in
       THEN [d EXCEPT !.selected_day = @ + 7]
       ELSE [MonthAfter(d) EXCEPT
                !.selected_day = d.selected_day + 7 - days_in]

\* The date after the handler of a key or of a press of the mouse button.
Moved(e, d) ==
    IF e.type = "KeyLeft" THEN KeyLeft(d)
    ELSE IF e.type = "KeyRight" THEN KeyRight(d)
    ELSE IF e.type = "KeyUp" THEN KeyUp(d)
    ELSE IF e.type = "KeyDown" THEN KeyDown(d)
    ELSE IF e.type = "ButtonPress"
    THEN LET nav == IF mouse = 3 THEN ClickPrev(d)
                    ELSE IF mouse = 4 THEN ClickNext(d)
                    ELSE d
         IN IF hovered_day # {}
            THEN [nav EXCEPT !.selected_day = CHOOSE day \in hovered_day : TRUE]
            ELSE nav
    ELSE d

\* The handler goes to the month before, or to the month after.
GoesBack(e, d) ==
    \/ e.type = "KeyLeft" /\ ~(d.selected_day > 1)
    \/ e.type = "KeyUp" /\ ~(d.selected_day > 7)
    \/ e.type = "ButtonPress" /\ mouse = 3

GoesOn(e, d) ==
    \/ e.type = "KeyRight" /\ ~(d.selected_day < days_in_month(d.year, d.month))
    \/ e.type = "KeyDown"
           /\ ~(d.selected_day + 7 <= days_in_month(d.year, d.month))
    \/ e.type = "ButtonPress" /\ mouse = 4

\* The handler's arithmetic leaves u32: a panic where overflow is checked,
\* as in a debug build, a wrap where it is not.
Wraps(e, d) ==
    \/ GoesBack(e, d) /\ Underflows(d)
    \/ GoesOn(e, d) /\ Overflows(d)

\* hovered_day after CursorMove(pos)
HoveredAt(pos, v, m) ==
    IF pos >= 10
    THEN LET day == (pos - 10) - first_day_of_month(v, m) + 1
         IN IF day >= 1 /\ day <= days_in_month(v, m) THEN {day} ELSE {}
    ELSE {}

\* CalendarResult
Selected(d) ==
    [tag |-> "Selected", year |-> d.year, month |-> d.month,
     day |-> d.selected_day]

Unpicked(tag) == [tag |-> tag, year |-> 0, month |-> 0, day |-> 0]

\* show returns r.
Picks(r) ==
    /\ picked' = r
    /\ cpc' = "returned"

\* The builder's year, month and day, or the current date, and the window
\* shown.
InitCalendar ==
    /\ NoOthers
    /\ ButtonIdle
    /\ cpc = "wait"
    /\ year \in U32Max..MaxYear
    /\ \E m \in 0..13 : month = clamp(m, 1, 12)
    /\ \E d \in 0..32 : selected_day = clamp(d, 1, 31)
    /\ hovered_day = {}
    /\ mouse = 0
    /\ cal_buttons = <<ButtonNew("OK"), ButtonNew("Cancel")>>
    /\ picked = Unpicked("none")
    /\ grid = [first_day |-> -1, days |-> 0]

\* One turn of the loop up to the batch: `match &event`, then the buttons.
CalendarEvent ==
    /\ cpc = "wait"
    /\ \E e \in CalendarEvents :
          LET d == Moved(e, Date)
              took == [i \in 1..2 |-> process_event(cal_buttons[i], e, i)]
          IN /\ d.year \in U32Max..MaxYear
             /\ IF e.type = "CloseRequested"
                THEN /\ Picks(Unpicked("Closed"))
                     /\ UNCHANGED <<year, month, selected_day, hovered_day,
                                    mouse, cal_buttons>>
                ELSE IF e.type = "KeyReturn"
                THEN /\ Picks(Selected(Date))
                     /\ UNCHANGED <<year, month, selected_day, hovered_day,
                                    mouse, cal_buttons>>
                ELSE IF e.type = "KeyEscape"
                THEN /\ Picks(Unpicked("Cancelled"))
                     /\ UNCHANGED <<year, month, selected_day, hovered_day,
                                    mouse, cal_buttons>>
                ELSE /\ \/ /\ year' = d.year
                           /\ month' = d.month
                           /\ selected_day' = d.selected_day
                           /\ mouse' = IF e.type = "CursorMove"
                                       THEN e.pos ELSE mouse
                           /\ hovered_day' =
                                  IF e.type = "CursorMove"
                                  THEN HoveredAt(e.pos, year, month)
                                  ELSE hovered_day
                           /\ IF took[1].clicked
                              THEN /\ Picks(Selected(d))
                                   /\ cal_buttons' =
                                          [took EXCEPT ![1].clicked = FALSE]
                              ELSE IF took[2].clicked
                              THEN /\ Picks(Unpicked("Cancelled"))
                                   /\ cal_buttons' =
                                          [took EXCEPT ![2].clicked = FALSE]
                              ELSE /\ cal_buttons' = took
                                   /\ cpc' = "batch"
                                   /\ UNCHANGED picked
                        \/ /\ Wraps(e, Date)
                           /\ cpc' = "panicked"
                           /\ UNCHANGED <<year, month, selected_day,
                                          hovered_day, mouse, cal_buttons,
                                          picked>>
    /\ UNCHANGED grid
    /\ UNCHANGED outsideCalendar

\* One turn of `while let Some(ev) = window.poll_for_event()?`.
CalendarBatch ==
    /\ cpc = "batch"
    /\ \E e \in CalendarEvents :
          IF e.type = "CloseRequested"
          THEN /\ Picks(Unpicked("Closed"))
               /\ UNCHANGED <<mouse, cal_buttons>>
          ELSE /\ mouse' = IF e.type = "CursorMove" THEN e.pos ELSE mouse
               /\ cal_buttons' =
                      [i \in 1..2 |-> process_event(cal_buttons[i], e, i)]
               /\ UNCHANGED <<cpc, picked>>
    /\ UNCHANGED <<year, month, selected_day, hovered_day, grid>>
    /\ UNCHANGED outsideCalendar

\* poll_for_event has no more events: back to wait_for_event.
CalendarBatchEnd ==
    /\ cpc = "batch"
    /\ cpc' = "wait"
    /\ UNCHANGED <<year, month, selected_day, hovered_day, mouse, cal_buttons,
                   picked, grid>>
    /\ UNCHANGED outsideCalendar

\* A `?` of the loop fails: wait_for_event, poll_for_event or set_contents.
CalendarFails ==
    /\ cpc \in {"wait", "batch"}
    /\ Picks(Unpicked("Err"))
    /\ UNCHANGED <<year, month, selected_day, hovered_day, mouse, cal_buttons,
                   grid>>
    /\ UNCHANGED outsideCalendar

NextCalendar ==
    \/ CalendarEvent
    \/ CalendarBatch
    \/ CalendarBatchEnd
    \/ CalendarFails

SpecCalendar == InitCalendar /\ [][NextCalendar]_vars

\* 1 <= month <= 12 and 1 <= day <= days_in_month(year, month)
ValidDate(v, m, day) ==
    /\ m \in 1..12
    /\ day >= 1
    /\ day <= days_in_month(v, m)

\* C36: the date show returns in Selected is a date of the calendar: its
\* month is in 1..12 and its day in 1..days_in_month(year, month), whatever
\* the builder was given and whatever events came before. Checked under
\* SpecCalendar. The builder keeps a day up to 31 in any month, and a click
\* puts the day last hovered into a month changed since.
C36_SelectedIsValid ==
    picked.tag = "Selected" => ValidDate(picked.year, picked.month, picked.day)

\* The press of a key.
Key(t) == [type |-> t, pos |-> 0]

\* The days from 1 January of year 1 to the date d.
Ordinal(d) ==
    DaysBeforeYear(d.year) + DaysBeforeMonth(d.year, d.month) + d.selected_day

\* The step is a press of key a: the date moves by `days`, and key b brings
\* it back.
ThereAndBack(a, b, days) ==
    (Date' = Moved(Key(a), Date) /\ cpc' = "batch") =>
        /\ ~Wraps(Key(a), Date)
        /\ ~Wraps(Key(b), Date')
        /\ Moved(Key(b), Date') = Date
        /\ Ordinal(Date') = Ordinal(Date) + days

\* A step of the loop from a valid selected date: no key ends show in a
\* panic, and each of the four keys moves the date and has its way back.
RoundTrips ==
    (cpc = "wait" /\ ValidDate(year, month, selected_day)) =>
        /\ (cpc' = "panicked" => mouse \in {3, 4})
        /\ ThereAndBack("KeyLeft", "KeyRight", -1)
        /\ ThereAndBack("KeyRight", "KeyLeft", 1)
        /\ ThereAndBack("KeyUp", "KeyDown", -7)
        /\ ThereAndBack("KeyDown", "KeyUp", 7)

\* C37: from a valid selected date, Left then Right, Right then Left, Up
\* then Down and Down then Up bring back the year, month and day selected;
\* Left and Right move the selection by one day and Up and Down by seven,
\* also from one month or year to the next. Checked under SpecCalendar.
\* In the first week of January of year 0, Left or Up takes one from a year
\* that is 0.
C37_ArrowRoundTrips == [][RoundTrips]_vars

\* Where no key takes the year out of u32 the round trips hold.
C37_WithinU32 ==
    [][(/\ ~(year = 0 /\ month = 1 /\ selected_day <= 7)
        /\ ~(year = U32Max /\ month = 12 /\ selected_day >= 25)) =>
           RoundTrips]_vars

====
